---- MODULE Spec2Model ----
(***************************************************************************)
(* Storage layer of the file manager (src/server.ts): path normalisation,  *)
(* root confinement, the local and the S3 backend, trash and the chunked   *)
(* upload coordinator.                                                     *)
(*                                                                         *)
(* A string is a sequence of characters.  A character is a one-letter TLA+ *)
(* string; "T" stands for the five letters "trash", "m" for "meta", "P"    *)
(* for ".part" and "J" for ".json", so that ".trash" is <<".", "T">> and   *)
(* "2.part" is <<"2", "P">>.                                               *)
(***************************************************************************)
EXTENDS Integers, Sequences, FiniteSets, TLC

\* const v = value; rest(v): the value is computed once, where the code
\* computes it
Bind(value, Rest(_)) == CHOOSE r \in { Rest(v) : v \in { value } } : TRUE

SEP == "/"
BSL == "\\"
SPC == " "
DOT == "."

StartsWith(s, p) == Len(s) >= Len(p) /\ SubSeq(s, 1, Len(p)) = p
EndsWith(s, p) == Len(s) >= Len(p) /\ SubSeq(s, Len(s) - Len(p) + 1, Len(s)) = p
Includes(s, ch) == \E i \in 1..Len(s) : s[i] = ch

RECURSIVE TrimStart(_)
TrimStart(s) == IF s # <<>> /\ Head(s) = SPC THEN TrimStart(Tail(s)) ELSE s

RECURSIVE TrimEnd(_)
TrimEnd(s) == IF s # <<>> /\ s[Len(s)] = SPC THEN TrimEnd(SubSeq(s, 1, Len(s) - 1)) ELSE s

\* String.prototype.trim
Trim(s) == TrimEnd(TrimStart(s))

\* raw.replace(/\\/g, "/")
ReplaceBackslash(s) == [i \in 1..Len(s) |-> IF s[i] = BSL THEN SEP ELSE s[i]]

\* s.split("/"): the segments between separators, empty ones included
RECURSIVE SplitAcc(_, _, _)
SplitAcc(s, cur, acc) ==
  IF s = <<>> THEN Append(acc, cur)
  ELSE IF Head(s) = SEP THEN SplitAcc(Tail(s), <<>>, Append(acc, cur))
  ELSE SplitAcc(Tail(s), Append(cur, Head(s)), acc)

Split(s) == SplitAcc(s, <<>>, <<>>)

\* segs.join("/")
RECURSIVE JoinSegs(_)
JoinSegs(segs) ==
  IF segs = <<>> THEN <<>>
  ELSE IF Len(segs) = 1 THEN segs[1]
  ELSE segs[1] \o <<SEP>> \o JoinSegs(Tail(segs))

DOTDOT == <<DOT, DOT>>

\* normalizeString of path.posix with allowAboveRoot = false: "." and empty
\* segments are dropped, ".." removes the segment before it and is absorbed
\* at the root
RECURSIVE NormalizeSegs(_, _)
NormalizeSegs(segs, acc) ==
  IF segs = <<>> THEN acc
  ELSE LET s == Head(segs) IN
    IF s = <<>> \/ s = <<DOT>> THEN NormalizeSegs(Tail(segs), acc)
    ELSE IF s = DOTDOT
      THEN NormalizeSegs(Tail(segs), IF acc = <<>> THEN acc ELSE SubSeq(acc, 1, Len(acc) - 1))
    ELSE NormalizeSegs(Tail(segs), Append(acc, s))

\* path.posix.normalize for an absolute path: a trailing separator is kept
PosixNormalize(raw) ==
  Bind(JoinSegs(NormalizeSegs(Split(raw), <<>>)), LAMBDA body :
  IF body = <<>> THEN <<SEP>>
  ELSE <<SEP>> \o body \o (IF raw # <<>> /\ raw[Len(raw)] = SEP THEN <<SEP>> ELSE <<>>))

normalizeRequestPath(input) ==
  Bind(Trim(input), LAMBDA t :
  Bind(ReplaceBackslash(IF t = <<>> THEN <<SEP>> ELSE t), LAMBDA raw :
  Bind(PosixNormalize(IF StartsWith(raw, <<SEP>>) THEN raw ELSE <<SEP>> \o raw),
       LAMBDA normalized :
  IF ~StartsWith(normalized, <<SEP>>) THEN <<SEP>> ELSE normalized)))

\* the segments of a normalised path; the OS, path.resolve and path.join skip
\* empty segments, so a trailing separator adds none
SegsOf(p) == SelectSeq(Split(p), LAMBDA s : s # <<>>)

\* path.posix.dirname / path.posix.basename of a normalised absolute path
posixDirname(p) ==
  Bind(SegsOf(p), LAMBDA segs :
  IF Len(segs) <= 1 THEN <<SEP>> ELSE <<SEP>> \o JoinSegs(SubSeq(segs, 1, Len(segs) - 1)))

posixBasename(p) ==
  Bind(SegsOf(p), LAMBDA segs : IF segs = <<>> THEN <<>> ELSE segs[Len(segs)])

\* sanitizeName: the trimmed name, or the empty string for null
sanitizeName(value) ==
  Bind(Trim(value), LAMBDA trimmed :
  IF trimmed = <<>> THEN <<>>
  ELSE IF Includes(trimmed, SEP) \/ Includes(trimmed, BSL) THEN <<>>
  ELSE IF trimmed = <<DOT>> \/ trimmed = DOTDOT THEN <<>>
  ELSE trimmed)


(***************************************************************************)
(* The local filesystem.  A real path is a sequence of segments (each a    *)
(* string); fs maps every existing path to its node.  The string form of a *)
(* path is what isWithinRoot compares.                                     *)
(***************************************************************************)
Str(p) == IF p = <<>> THEN <<SEP>> ELSE <<SEP>> \o JoinSegs(p)

IsPrefix(a, b) == Len(a) <= Len(b) /\ SubSeq(b, 1, Len(a)) = a
Parent(p) == SubSeq(p, 1, Len(p) - 1)
Last(p) == p[Len(p)]

TRASH == <<DOT, "T">>
META == <<DOT, "m">>
META_JSON == <<"m", "J">>

DirNode == [t |-> "dir"]
NoJson == [k |-> "none"]
FileNode(c) == [t |-> "file", c |-> c, j |-> NoJson]
JsonNode(j) == [t |-> "file", c |-> <<>>, j |-> j]
LinkNode(to) == [t |-> "link", to |-> to]

\* longest chain of symbolic links the walk follows before it gives up (ELOOP)
MaxLinkDepth == 3

\* The walk the OS does for a path: done is a real directory, rest the
\* segments still to resolve.  Symbolic links are followed, the last one too.
\* "ok": the entry exists at .p; "new": it does not but its directory does;
\* "err": ENOENT, ENOTDIR or ELOOP.
RECURSIVE Walk(_, _, _, _)
Walk(f, done, rest, fuel) ==
  IF rest = <<>> THEN [r |-> "ok", p |-> done]
  ELSE LET p == Append(done, Head(rest)) IN
    IF p \notin DOMAIN f
      THEN IF Len(rest) = 1 THEN [r |-> "new", p |-> p] ELSE [r |-> "err", p |-> p]
    ELSE IF f[p].t = "link"
      THEN IF fuel = 0 THEN [r |-> "err", p |-> p]
           ELSE Walk(f, <<>>, f[p].to \o Tail(rest), fuel - 1)
    ELSE IF f[p].t = "dir" THEN Walk(f, p, Tail(rest), fuel)
    ELSE IF Len(rest) = 1 THEN [r |-> "ok", p |-> p] ELSE [r |-> "err", p |-> p]

Follow(f, p) == Walk(f, <<>>, p, MaxLinkDepth)

\* the walk of lstat, rename, unlink and mkdir: the last segment is not followed
NoFollow(f, p) ==
  IF p = <<>> THEN [r |-> "ok", p |-> p] ELSE
  Bind(Follow(f, Parent(p)), LAMBDA d :
  IF d.r # "ok" \/ f[d.p].t # "dir" THEN [r |-> "err", p |-> p] ELSE
  Bind(Append(d.p, Last(p)), LAMBDA q :
  IF q \in DOMAIN f THEN [r |-> "ok", p |-> q] ELSE [r |-> "new", p |-> q]))

\* fs.realpath: fails unless the entry exists
realpathOk(f, p) == Follow(f, p).r = "ok"
realpath(f, p) == Follow(f, p).p

\* fs.stat follows links; pathExists is a stat that did not throw
pathExists(f, p) == Follow(f, p).r = "ok"
IsDir(f, p) == Bind(Follow(f, p), LAMBDA w : w.r = "ok" /\ f[w.p].t = "dir")
IsFile(f, p) == Bind(Follow(f, p), LAMBDA w : w.r = "ok" /\ f[w.p].t = "file")

\* the containment test without the separator after the root
isWithinRoot_NoSep(candidate, rootReal) ==
  candidate = rootReal \/ StartsWith(Str(candidate), Str(rootReal))

isWithinRoot(candidate, rootReal) ==
  \/ candidate = rootReal
  \/ LET root == Str(rootReal)
         rootWithSep == IF EndsWith(root, <<SEP>>) THEN root ELSE root \o <<SEP>>
     IN StartsWith(Str(candidate), rootWithSep)

IsTrashPath(normalized) ==
  normalized = <<SEP>> \o TRASH \/ StartsWith(normalized, <<SEP>> \o TRASH \o <<SEP>>)

\* resolveSafePath: [ok |-> FALSE] stands for the thrown error
resolveSafePath(f, requestPath, rootReal) ==
  Bind(normalizeRequestPath(requestPath), LAMBDA normalized :
  IF IsTrashPath(normalized) THEN [ok |-> FALSE, why |-> "not allowed"] ELSE
  Bind(rootReal \o SegsOf(normalized), LAMBDA joined :
  IF ~realpathOk(f, joined) THEN [ok |-> FALSE, why |-> "realpath"] ELSE
  Bind(realpath(f, joined), LAMBDA fullPath :
  IF ~isWithinRoot(fullPath, rootReal) THEN [ok |-> FALSE, why |-> "escapes"]
  ELSE [ok |-> TRUE, normalized |-> normalized, fullPath |-> fullPath])))


(***************************************************************************)
(* The filesystem calls the handlers make.  Each yields [ok, fs]; ok =     *)
(* FALSE stands for the thrown error and leaves the tree as it was.        *)
(***************************************************************************)
Children(f, d) == { q \in DOMAIN f : Len(q) = Len(d) + 1 /\ IsPrefix(d, q) }
Subtree(f, d) == { q \in DOMAIN f : IsPrefix(d, q) }
Without(f, gone) == [q \in DOMAIN f \ gone |-> f[q]]
Failed(f) == [ok |-> FALSE, fs |-> f]

\* open(p, O_WRONLY | O_CREAT | O_TRUNC) and a write of all the bytes, as
\* Bun.write, fs.writeFile, fs.copyFile and fs.open(p, "w") do: symbolic
\* links are followed, the last one too, and a missing target is created
WriteThrough(f, p, node) ==
  Bind(Follow(f, p), LAMBDA w :
  IF w.r = "err" THEN Failed(f)
  ELSE IF w.r = "ok" /\ f[w.p].t # "file" THEN Failed(f)
  ELSE [ok |-> TRUE, fs |-> (w.p :> node) @@ f])

\* fs.mkdir without recursive: EEXIST when anything is there, a link too
MkdirAt(f, p) ==
  Bind(NoFollow(f, p), LAMBDA w :
  IF w.r # "new" THEN Failed(f) ELSE [ok |-> TRUE, fs |-> (w.p :> DirNode) @@ f])

\* fs.mkdir with recursive: every missing directory of the path is created
RECURSIVE MkdirP(_, _, _)
MkdirP(f, p, n) ==
  IF n > Len(p) THEN [ok |-> TRUE, fs |-> f] ELSE
  Bind(SubSeq(p, 1, n), LAMBDA q :
  Bind(Follow(f, q), LAMBDA w :
  IF w.r = "ok" /\ f[w.p].t = "dir" THEN MkdirP(f, p, n + 1)
  ELSE IF w.r = "new" /\ NoFollow(f, q).r = "new"
    THEN Bind((w.p :> DirNode) @@ f, LAMBDA made : MkdirP(made, p, n + 1))
  ELSE Failed(f)))

\* rename(2): neither last segment is followed; the entry and all below it move
RenameAt(f, old, new) ==
  Bind(NoFollow(f, old), LAMBDA o :
  Bind(NoFollow(f, new), LAMBDA n :
  IF o.r # "ok" \/ n.r = "err" THEN Failed(f)
  ELSE IF o.p = n.p THEN [ok |-> TRUE, fs |-> f]
  ELSE IF IsPrefix(o.p, n.p) THEN Failed(f)
  ELSE IF n.r = "ok" /\ f[o.p].t = "dir"
                     /\ (f[n.p].t # "dir" \/ Children(f, n.p) # {}) THEN Failed(f)
  ELSE IF n.r = "ok" /\ f[o.p].t # "dir" /\ f[n.p].t = "dir" THEN Failed(f)
  ELSE
  Bind(Subtree(f, o.p), LAMBDA moved :
  Bind(Without(f, moved \cup Subtree(f, n.p)), LAMBDA kept :
  [ok |-> TRUE,
   fs |-> [q \in { n.p \o SubSeq(m, Len(o.p) + 1, Len(m)) : m \in moved } |->
             f[o.p \o SubSeq(q, Len(n.p) + 1, Len(q))]] @@ kept]))))

\* fs.unlink
UnlinkAt(f, p) ==
  Bind(NoFollow(f, p), LAMBDA w :
  IF w.r # "ok" \/ f[w.p].t = "dir" THEN Failed(f)
  ELSE [ok |-> TRUE, fs |-> Without(f, {w.p})])

\* fs.rm(p, {recursive, force}): never fails, follows no link
RmRecursive(f, p) ==
  Bind(NoFollow(f, p), LAMBDA w :
  IF w.r # "ok" THEN f ELSE Without(f, Subtree(f, w.p)))

\* the entries of the tree below src that copyPath visits: it skips every
\* symbolic link it meets in a directory
NoLinkBelow(f, src, q) ==
  \A n \in (Len(src) + 1)..Len(q) : f[SubSeq(q, 1, n)].t # "link"

\* copyPath(source, destination): source is a real path
copyPath(f, source, destination) ==
  IF ~pathExists(f, source) THEN Failed(f)
  ELSE IF ~IsDir(f, source) THEN WriteThrough(f, destination, f[source])
  ELSE
  Bind(MkdirAt(f, destination), LAMBDA made :
  IF ~made.ok THEN Failed(f) ELSE
  Bind(NoFollow(f, destination).p, LAMBDA d :
  Bind({ q \in Subtree(f, source) : q # source /\ NoLinkBelow(f, source, q) }, LAMBDA visited :
  [ok |-> TRUE,
   fs |-> [q \in { d \o SubSeq(v, Len(source) + 1, Len(v)) : v \in visited } |->
             f[source \o SubSeq(q, Len(d) + 1, Len(q))]] @@ made.fs])))

(***************************************************************************)
(* The handlers of the local backend.  Each takes the tree and the request *)
(* and yields the tree after it and the response; a thrown error that no   *)
(* handler catches is the framework's 500.                                 *)
(***************************************************************************)
Reply(f, r) == [fs |-> f, resp |-> r]

Digits == <<"1", "2", "3", "4", "5", "6", "7", "8", "9">>
\* the n-th value randomUUID() returns
Uuid(n) == <<Digits[n]>>

\* path.join(base, s): the segments of s appended to base, then normalised
pathJoin(base, str) == NormalizeSegs(base \o Split(str), <<>>)

canWrite(role) == role # "read-only"

LastDot(seg) ==
  LET dots == { i \in 1..Len(seg) : seg[i] = DOT } IN
  IF dots = {} THEN 0 ELSE CHOOSE i \in dots : \A k \in dots : k <= i

\* path.extname of the last segment: from its last dot, unless that dot leads
extname(p) ==
  IF p = <<>> THEN <<>>
  ELSE LET seg == Last(p)
           i == LastDot(seg)
       IN IF i <= 1 THEN <<>> ELSE SubSeq(seg, i, Len(seg))

\* "x" stands for txt and "d" for md: .txt may be previewed and edited, .md
\* edited only
TEXT_PREVIEW_EXTS == { <<DOT, "x">> }
TEXT_EDIT_EXTS == { <<DOT, "x">>, <<DOT, "d">> }
MAX_EDIT_BYTES == 1024 * 1024

\* stats.size / ContentLength: the length of the content, or the size the
\* node names when its content stands for a longer one
StatSize(node) == IF "size" \in DOMAIN node THEN node.size ELSE Len(node.c)

\* A text is a sequence of UTF-16 code units, a file a sequence of bytes.
IsHighSurrogate(u) == u \in 55296..56319
IsLowSurrogate(u) == u \in 56320..57343
REPLACEMENT == 65533
BYTE_ORDER_MARK == 65279

\* The bytes fs.writeFile(path, text, "utf8"), Buffer.byteLength(text, "utf8")
\* and the S3 client make of a string: an unpaired surrogate becomes U+FFFD
RECURSIVE utf8Encode(_)
utf8Encode(text) ==
  IF text = <<>> THEN <<>>
  ELSE LET u == Head(text) IN
    IF u < 128 THEN <<u>> \o utf8Encode(Tail(text))
    ELSE IF u < 2048 THEN <<192 + (u \div 64), 128 + (u % 64)>> \o utf8Encode(Tail(text))
    ELSE IF IsHighSurrogate(u) /\ Len(text) > 1 /\ IsLowSurrogate(text[2])
      THEN LET cp == 65536 + (u - 55296) * 1024 + (text[2] - 56320) IN
           <<240 + (cp \div 262144), 128 + ((cp \div 4096) % 64),
             128 + ((cp \div 64) % 64), 128 + (cp % 64)>> \o utf8Encode(Tail(Tail(text)))
    ELSE IF IsHighSurrogate(u) \/ IsLowSurrogate(u)
      THEN <<239, 191, 189>> \o utf8Encode(Tail(text))
    ELSE <<224 + (u \div 4096), 128 + ((u \div 64) % 64), 128 + (u % 64)>>
           \o utf8Encode(Tail(text))

\* The code units a UTF-8 decoder makes of bytes: a byte that starts no
\* well-formed sequence becomes U+FFFD
RECURSIVE utf8Decode(_)
utf8Decode(bytes) ==
  IF bytes = <<>> THEN <<>>
  ELSE LET b1 == Head(bytes)
           n == Len(bytes)
           Cont(i) == n >= i /\ bytes[i] \in 128..191
           cp2 == (b1 - 192) * 64 + (bytes[2] - 128)
           cp3 == (b1 - 224) * 4096 + (bytes[2] - 128) * 64 + (bytes[3] - 128)
           cp4 == (b1 - 240) * 262144 + (bytes[2] - 128) * 4096
                    + (bytes[3] - 128) * 64 + (bytes[4] - 128)
       IN
    IF b1 < 128 THEN <<b1>> \o utf8Decode(Tail(bytes))
    ELSE IF b1 \in 194..223 /\ Cont(2) THEN <<cp2>> \o utf8Decode(SubSeq(bytes, 3, n))
    ELSE IF b1 \in 224..239 /\ Cont(2) /\ Cont(3) /\ cp3 >= 2048
              /\ ~IsHighSurrogate(cp3) /\ ~IsLowSurrogate(cp3)
      THEN <<cp3>> \o utf8Decode(SubSeq(bytes, 4, n))
    ELSE IF b1 \in 240..244 /\ Cont(2) /\ Cont(3) /\ Cont(4) /\ cp4 \in 65536..1114111
      THEN <<55296 + ((cp4 - 65536) \div 1024), 56320 + ((cp4 - 65536) % 1024)>>
             \o utf8Decode(SubSeq(bytes, 5, n))
    ELSE <<REPLACEMENT>> \o utf8Decode(Tail(bytes))

StripBOM(text) == IF text # <<>> /\ Head(text) = BYTE_ORDER_MARK THEN Tail(text) ELSE text

\* new TextDecoder().decode(bytes): ignoreBOM is false, a leading byte order
\* mark is dropped
TextDecoderDecode(bytes) == StripBOM(utf8Decode(bytes))

\* Bun.file(path).text(): whether a leading byte order mark is dropped
\* depends on the runtime's version
BunFileText(bytes, dropsBOM) ==
  IF dropsBOM THEN StripBOM(utf8Decode(bytes)) ELSE utf8Decode(bytes)

isTextPreviewable(p) == extname(p) \in TEXT_PREVIEW_EXTS
isTextEditable(p) == extname(p) \in TEXT_EDIT_EXTS

getTrashPaths(rootReal) ==
  [trashDir |-> Append(rootReal, TRASH), metaDir |-> rootReal \o <<TRASH, META>>]

ensureTrashDirs(f, metaDir) == MkdirP(f, metaDir, 1)

\* GET /api/list (local)
localList(f, ss, requestPath) ==
  LET req == [op |-> "list", path |-> requestPath] IN
  Bind(resolveSafePath(f, requestPath, ss.rootReal), LAMBDA resolved :
  IF ~resolved.ok THEN Reply(f, req @@ [code |-> 404])
  ELSE IF ~IsDir(f, resolved.fullPath) THEN Reply(f, req @@ [code |-> 400])
  ELSE Reply(f, req @@ [code |-> 200, loc |-> resolved.fullPath,
         entries |-> { [name |-> Last(q), type |-> f[q].t] :
                         q \in { q \in Children(f, resolved.fullPath) :
                                   /\ f[q].t # "link"
                                   /\ ~(resolved.normalized = <<SEP>> /\ Last(q) = TRASH) } }]))

\* GET /api/download (local)
localDownload(f, ss, requestPath) ==
  LET req == [op |-> "download", path |-> requestPath] IN
  IF requestPath = <<>> THEN Reply(f, req @@ [code |-> 400]) ELSE
  Bind(resolveSafePath(f, requestPath, ss.rootReal), LAMBDA resolved :
  IF ~resolved.ok THEN Reply(f, req @@ [code |-> 404])
  ELSE IF ~IsFile(f, resolved.fullPath) THEN Reply(f, req @@ [code |-> 400])
  ELSE Reply(f, req @@ [code |-> 200, loc |-> resolved.fullPath,
                        body |-> f[resolved.fullPath].c]))

\* POST /api/edit (local)
localEditSave(f, ss, requestPath, content) ==
  LET req == [op |-> "edit_save", path |-> requestPath] IN
  IF ~canWrite(ss.role) THEN Reply(f, req @@ [code |-> 403])
  ELSE IF requestPath = <<>> THEN Reply(f, req @@ [code |-> 400]) ELSE
  Bind(resolveSafePath(f, requestPath, ss.rootReal), LAMBDA resolved :
  IF ~resolved.ok THEN Reply(f, req @@ [code |-> 404])
  ELSE IF ~IsFile(f, resolved.fullPath) THEN Reply(f, req @@ [code |-> 400])
  ELSE IF ~isTextEditable(resolved.fullPath) THEN Reply(f, req @@ [code |-> 400])
  ELSE IF Len(utf8Encode(content)) > MAX_EDIT_BYTES THEN Reply(f, req @@ [code |-> 413]) ELSE
  Bind(WriteThrough(f, resolved.fullPath, FileNode(utf8Encode(content))), LAMBDA w :
  Reply(w.fs, req @@ [code |-> IF w.ok THEN 200 ELSE 500])))

\* GET /api/edit (local)
localEditOpen(f, ss, requestPath, dropsBOM) ==
  LET req == [op |-> "edit_open", path |-> requestPath] IN
  IF requestPath = <<>> THEN Reply(f, req @@ [code |-> 400]) ELSE
  Bind(resolveSafePath(f, requestPath, ss.rootReal), LAMBDA resolved :
  IF ~resolved.ok THEN Reply(f, req @@ [code |-> 404])
  ELSE IF ~IsFile(f, resolved.fullPath) THEN Reply(f, req @@ [code |-> 400])
  ELSE IF ~isTextEditable(resolved.fullPath) THEN Reply(f, req @@ [code |-> 400]) ELSE
  Bind(f[Follow(f, resolved.fullPath).p], LAMBDA node :
  IF StatSize(node) > MAX_EDIT_BYTES THEN Reply(f, req @@ [code |-> 413])
  ELSE Reply(f, req @@ [code |-> 200, loc |-> resolved.fullPath,
                        content |-> BunFileText(node.c, dropsBOM)])))

\* POST /api/mkdir (local)
localMkdir(f, ss, parentPath, rawName) ==
  LET req == [op |-> "mkdir", path |-> parentPath, name |-> rawName] IN
  IF ~canWrite(ss.role) THEN Reply(f, req @@ [code |-> 403]) ELSE
  Bind(sanitizeName(rawName), LAMBDA name :
  IF name = <<>> THEN Reply(f, req @@ [code |-> 400]) ELSE
  Bind(resolveSafePath(f, parentPath, ss.rootReal), LAMBDA parent :
  IF ~parent.ok THEN Reply(f, req @@ [code |-> 404])
  ELSE IF ~IsDir(f, parent.fullPath) THEN Reply(f, req @@ [code |-> 400]) ELSE
  Bind(Append(parent.fullPath, name), LAMBDA fullPath :
  IF ~isWithinRoot(fullPath, ss.rootReal) THEN Reply(f, req @@ [code |-> 400])
  ELSE IF pathExists(f, fullPath) THEN Reply(f, req @@ [code |-> 409]) ELSE
  Bind(MkdirAt(f, fullPath), LAMBDA m :
  Reply(m.fs, req @@ [code |-> IF m.ok THEN 200 ELSE 500])))))

\* POST /api/upload (local), one file in the form
localUpload(f, ss, targetPath, rawName, overwrite, bytes) ==
  LET req == [op |-> "upload", path |-> targetPath, name |-> rawName] IN
  IF ~canWrite(ss.role) THEN Reply(f, req @@ [code |-> 403]) ELSE
  Bind(resolveSafePath(f, targetPath, ss.rootReal), LAMBDA resolved :
  IF ~resolved.ok THEN Reply(f, req @@ [code |-> 404])
  ELSE IF ~IsDir(f, resolved.fullPath) THEN Reply(f, req @@ [code |-> 400]) ELSE
  Bind(sanitizeName(rawName), LAMBDA fileName :
  IF fileName = <<>> THEN Reply(f, req @@ [code |-> 400]) ELSE
  Bind(Append(resolved.fullPath, fileName), LAMBDA destPath :
  IF ~isWithinRoot(destPath, ss.rootReal) THEN Reply(f, req @@ [code |-> 400])
  ELSE IF ~overwrite /\ pathExists(f, destPath) THEN Reply(f, req @@ [code |-> 409]) ELSE
  Bind(WriteThrough(f, destPath, FileNode(bytes)), LAMBDA w :
  Reply(w.fs, req @@ [code |-> IF w.ok THEN 200 ELSE 500])))))

\* resolveDestinationPath: ok = FALSE, threw = FALSE is its null; threw = TRUE
\* the error of resolveSafePath, which it does not catch
resolveDestinationPath(f, target, rootReal) ==
  Bind(normalizeRequestPath(target), LAMBDA normalized :
  IF normalized = <<SEP>> \/ StartsWith(normalized, <<SEP>> \o TRASH)
    THEN [ok |-> FALSE, threw |-> FALSE] ELSE
  Bind(sanitizeName(posixBasename(normalized)), LAMBDA name :
  IF name = <<>> THEN [ok |-> FALSE, threw |-> FALSE] ELSE
  Bind(resolveSafePath(f, posixDirname(normalized), rootReal), LAMBDA parent :
  IF ~parent.ok THEN [ok |-> FALSE, threw |-> TRUE]
  ELSE [ok |-> TRUE, normalized |-> normalized, fullPath |-> Append(parent.fullPath, name)])))

\* POST /api/move (local)
localMove(f, ss, from, to) ==
  LET req == [op |-> "move", from |-> from, to |-> to] IN
  IF ~canWrite(ss.role) THEN Reply(f, req @@ [code |-> 403]) ELSE
  Bind(resolveSafePath(f, from, ss.rootReal), LAMBDA fromResolved :
  IF ~fromResolved.ok THEN Reply(f, req @@ [code |-> 404])
  ELSE IF fromResolved.normalized = <<SEP>> THEN Reply(f, req @@ [code |-> 400]) ELSE
  Bind(resolveDestinationPath(f, to, ss.rootReal), LAMBDA dest :
  IF ~dest.ok THEN Reply(f, req @@ [code |-> IF dest.threw THEN 500 ELSE 400])
  ELSE IF ~isWithinRoot(dest.fullPath, ss.rootReal) THEN Reply(f, req @@ [code |-> 400])
  ELSE IF dest.fullPath = fromResolved.fullPath THEN Reply(f, req @@ [code |-> 400])
  ELSE IF pathExists(f, dest.fullPath) THEN Reply(f, req @@ [code |-> 409])
  ELSE IF StartsWith(Str(dest.fullPath), Str(fromResolved.fullPath) \o <<SEP>>)
    THEN Reply(f, req @@ [code |-> 400]) ELSE
  Bind(RenameAt(f, fromResolved.fullPath, dest.fullPath), LAMBDA m :
  Reply(m.fs, req @@ [code |-> IF m.ok THEN 200 ELSE 500]))))

\* POST /api/copy (local)
localCopy(f, ss, from, to) ==
  LET req == [op |-> "copy", from |-> from, to |-> to] IN
  IF ~canWrite(ss.role) THEN Reply(f, req @@ [code |-> 403]) ELSE
  Bind(resolveSafePath(f, from, ss.rootReal), LAMBDA fromResolved :
  IF ~fromResolved.ok THEN Reply(f, req @@ [code |-> 404]) ELSE
  Bind(resolveDestinationPath(f, to, ss.rootReal), LAMBDA dest :
  IF ~dest.ok THEN Reply(f, req @@ [code |-> IF dest.threw THEN 500 ELSE 400])
  ELSE IF pathExists(f, dest.fullPath) THEN Reply(f, req @@ [code |-> 409])
  ELSE IF StartsWith(Str(dest.fullPath), Str(fromResolved.fullPath) \o <<SEP>>)
    THEN Reply(f, req @@ [code |-> 400]) ELSE
  Bind(copyPath(f, fromResolved.fullPath, dest.fullPath), LAMBDA m :
  Reply(m.fs, req @@ [code |-> IF m.ok THEN 200 ELSE 500]))))

\* the name an item gets in the trash: `${Date.now()}-${fileName}-${id}`, the
\* timestamp written as "0"
TrashName(fileName, id) == <<"0", "-">> \o fileName \o <<"-">> \o id

TrashRecord(id, fileName, normalized, now, isDir, size) ==
  [k |-> "trash", id |-> id, name |-> fileName, originalPath |-> normalized,
   deletedAt |-> now, type |-> IF isDir THEN "dir" ELSE "file", size |-> size,
   trashName |-> TrashName(fileName, id)]

OrItem(name) == IF name = <<>> THEN <<"i">> ELSE name

\* POST /api/trash (local); id is the value randomUUID() returns
localTrash(f, ss, requestPath, id, now) ==
  LET req == [op |-> "trash", path |-> requestPath] IN
  IF ~canWrite(ss.role) THEN Reply(f, req @@ [code |-> 403]) ELSE
  Bind(resolveSafePath(f, requestPath, ss.rootReal), LAMBDA resolved :
  IF ~resolved.ok THEN Reply(f, req @@ [code |-> 404])
  ELSE IF resolved.normalized = <<SEP>> THEN Reply(f, req @@ [code |-> 400]) ELSE
  Bind(getTrashPaths(ss.rootReal), LAMBDA tp :
  Bind(ensureTrashDirs(f, tp.metaDir), LAMBDA dirs :
  IF ~dirs.ok THEN Reply(f, req @@ [code |-> 500]) ELSE
  Bind(OrItem(sanitizeName(Last(resolved.fullPath))), LAMBDA fileName :
  Bind(Append(tp.trashDir, TrashName(fileName, id)), LAMBDA trashPath :
  Bind(RenameAt(dirs.fs, resolved.fullPath, trashPath), LAMBDA moved :
  IF ~moved.ok THEN Reply(dirs.fs, req @@ [code |-> 500]) ELSE
  Bind(TrashRecord(id, fileName, resolved.normalized, now, IsDir(f, resolved.fullPath),
                   IF IsFile(f, resolved.fullPath) THEN Len(f[resolved.fullPath].c) ELSE 0),
       LAMBDA record :
  Bind(WriteThrough(moved.fs, Append(tp.metaDir, id \o <<"J">>), JsonNode(record)),
       LAMBDA written :
  IF ~written.ok THEN Reply(moved.fs, req @@ [code |-> 500])
  ELSE Reply(written.fs, req @@ [code |-> 200, item |-> record])))))))))

\* readTrashRecord: the parsed record, or [k |-> "none"] for null
readTrashRecord(f, metaDir, id) ==
  Bind(pathJoin(metaDir, id \o <<"J">>), LAMBDA file :
  IF ~IsFile(f, file) THEN NoJson ELSE
  Bind(f[Follow(f, file).p].j, LAMBDA j :
  IF j.k # "trash" THEN NoJson
  ELSE IF j.id = <<>> \/ j.trashName = <<>> \/ j.originalPath = <<>> THEN NoJson
  ELSE j))

\* POST /api/trash/restore (local)
localRestore(f, ss, id) ==
  LET req == [op |-> "restore", id |-> id] IN
  IF ~canWrite(ss.role) THEN Reply(f, req @@ [code |-> 403])
  ELSE IF id = <<>> THEN Reply(f, req @@ [code |-> 400]) ELSE
  Bind(getTrashPaths(ss.rootReal), LAMBDA tp :
  Bind(ensureTrashDirs(f, tp.metaDir), LAMBDA dirs :
  IF ~dirs.ok THEN Reply(f, req @@ [code |-> 500]) ELSE
  Bind(readTrashRecord(dirs.fs, tp.metaDir, id), LAMBDA record :
  IF record.k = "none" THEN Reply(dirs.fs, req @@ [code |-> 404]) ELSE
  Bind(normalizeRequestPath(record.originalPath), LAMBDA normalized :
  IF normalized = <<SEP>> \/ StartsWith(normalized, <<SEP>> \o TRASH)
    THEN Reply(dirs.fs, req @@ [code |-> 400]) ELSE
  Bind(resolveSafePath(dirs.fs, posixDirname(normalized), ss.rootReal), LAMBDA parent :
  IF ~parent.ok THEN Reply(dirs.fs, req @@ [code |-> 409]) ELSE
  Bind(pathJoin(parent.fullPath, posixBasename(normalized)), LAMBDA destPath :
  IF pathExists(dirs.fs, destPath) THEN Reply(dirs.fs, req @@ [code |-> 409]) ELSE
  Bind(pathJoin(tp.trashDir, record.trashName), LAMBDA trashPath :
  IF ~pathExists(dirs.fs, trashPath) THEN Reply(dirs.fs, req @@ [code |-> 404]) ELSE
  Bind(RenameAt(dirs.fs, trashPath, destPath), LAMBDA moved :
  IF ~moved.ok THEN Reply(dirs.fs, req @@ [code |-> 500]) ELSE
  Bind(UnlinkAt(moved.fs, pathJoin(tp.metaDir, record.id \o <<"J">>)), LAMBDA unlinked :
  IF ~unlinked.ok THEN Reply(moved.fs, req @@ [code |-> 500])
  ELSE Reply(unlinked.fs, req @@ [code |-> 200, restored |-> normalized]))))))))))

(***************************************************************************)
(* The S3 backend.  The bucket maps a key (a string) to an object; a       *)
(* directory is a key prefix.                                              *)
(***************************************************************************)
S3Object(c) == [c |-> c, j |-> NoJson]
S3Json(j) == [c |-> <<>>, j |-> j]
ReplyS3(b, r) == [s3 |-> b, resp |-> r]

RECURSIVE StripTrailingSlashes(_)
StripTrailingSlashes(str) ==
  IF str # <<>> /\ str[Len(str)] = SEP THEN StripTrailingSlashes(SubSeq(str, 1, Len(str) - 1))
  ELSE str

resolveSafeS3Path(requestPath, rootPrefix) ==
  Bind(normalizeRequestPath(requestPath), LAMBDA normalized :
  IF IsTrashPath(normalized) THEN [ok |-> FALSE]
  ELSE [ok |-> TRUE, normalized |-> normalized, rootPrefix |-> rootPrefix])

toS3Key(rootPrefix, normalizedPath) ==
  IF normalizedPath = <<SEP>> THEN rootPrefix ELSE rootPrefix \o Tail(normalizedPath)

toS3Prefix(rootPrefix, normalizedPath) ==
  IF normalizedPath = <<SEP>> THEN rootPrefix
  ELSE rootPrefix \o Tail(StripTrailingSlashes(normalizedPath)) \o <<SEP>>

getTrashPrefixesS3(rootPrefix) ==
  [trashPrefix |-> rootPrefix \o TRASH \o <<SEP>>,
   metaPrefix |-> rootPrefix \o TRASH \o <<SEP>> \o META \o <<SEP>>]

s3ObjectExists(b, key) == key \in DOMAIN b

\* listS3Objects: the keys under the prefix
listS3Objects(b, prefix) == { k \in DOMAIN b : StartsWith(k, prefix) }

s3PrefixExists(b, prefix) == prefix = <<>> \/ listS3Objects(b, prefix) # {}

getS3PathInfo(b, rootPrefix, normalizedPath) ==
  IF normalizedPath = <<SEP>> THEN [type |-> "dir", size |-> 0] ELSE
  Bind(toS3Key(rootPrefix, normalizedPath), LAMBDA key :
  IF s3ObjectExists(b, key) THEN [type |-> "file", size |-> StatSize(b[key])]
  ELSE IF s3PrefixExists(b, toS3Prefix(rootPrefix, normalizedPath))
    THEN [type |-> "dir", size |-> 0]
  ELSE [type |-> "none", size |-> 0])

s3PathExists(b, rootPrefix, normalizedPath) ==
  getS3PathInfo(b, rootPrefix, normalizedPath).type # "none"

s3PutObject(b, key, obj) == (key :> obj) @@ b
s3DeleteObject(b, key) == [k \in DOMAIN b \ {key} |-> b[k]]
\* CopyObject: fails when the source key is missing
s3CopyOk(b, fromKey) == fromKey \in DOMAIN b
s3CopyObject(b, fromKey, toKey) == (toKey :> b[fromKey]) @@ b

ChildPath(parentNormalized, name) ==
  IF parentNormalized = <<SEP>> THEN <<SEP>> \o name ELSE parentNormalized \o <<SEP>> \o name

\* copyS3Path: [ok, s3]
copyS3Path(b, rootPrefix, fromPath, toPath, type) ==
  IF type = "file"
    THEN Bind(toS3Key(rootPrefix, fromPath), LAMBDA fromKey :
         Bind(toS3Key(rootPrefix, toPath), LAMBDA toKey :
         IF s3CopyOk(b, fromKey) THEN [ok |-> TRUE, s3 |-> s3CopyObject(b, fromKey, toKey)]
         ELSE [ok |-> FALSE, s3 |-> b]))
  ELSE Bind(toS3Prefix(rootPrefix, fromPath), LAMBDA fromPrefix :
       Bind(toS3Prefix(rootPrefix, toPath), LAMBDA toPrefix :
       Bind(listS3Objects(b, fromPrefix), LAMBDA objects :
       IF objects = {} THEN [ok |-> TRUE, s3 |-> s3PutObject(b, toPrefix, S3Object(<<>>))]
       ELSE [ok |-> TRUE,
             s3 |-> [k \in { toPrefix \o SubSeq(o, Len(fromPrefix) + 1, Len(o)) : o \in objects } |->
                       b[fromPrefix \o SubSeq(k, Len(toPrefix) + 1, Len(k))]] @@ b])))

\* moveS3Path: the copies, then the deletes
moveS3Path(b, rootPrefix, fromPath, toPath, type) ==
  IF type = "file"
    THEN Bind(toS3Key(rootPrefix, fromPath), LAMBDA fromKey :
         Bind(toS3Key(rootPrefix, toPath), LAMBDA toKey :
         IF s3CopyOk(b, fromKey)
           THEN [ok |-> TRUE, s3 |-> s3DeleteObject(s3CopyObject(b, fromKey, toKey), fromKey)]
         ELSE [ok |-> FALSE, s3 |-> b]))
  ELSE Bind(toS3Prefix(rootPrefix, toPath), LAMBDA toPrefix :
       Bind(listS3Objects(b, toS3Prefix(rootPrefix, fromPath)), LAMBDA objects :
       IF objects = {} THEN [ok |-> TRUE, s3 |-> s3PutObject(b, toPrefix, S3Object(<<>>))] ELSE
       Bind(copyS3Path(b, rootPrefix, fromPath, toPath, type).s3, LAMBDA copied :
       [ok |-> TRUE, s3 |-> [k \in DOMAIN copied \ objects |-> copied[k]]])))

resolveDestinationPathS3(target) ==
  Bind(normalizeRequestPath(target), LAMBDA normalized :
  IF normalized = <<SEP>> \/ StartsWith(normalized, <<SEP>> \o TRASH) THEN [ok |-> FALSE]
  ELSE IF sanitizeName(posixBasename(normalized)) = <<>> THEN [ok |-> FALSE]
  ELSE [ok |-> TRUE, normalized |-> normalized])

\* the first separator of a string, 0 when it has none
FirstSep(str) ==
  Bind({ i \in 1..Len(str) : str[i] = SEP }, LAMBDA at :
  IF at = {} THEN 0 ELSE CHOOSE i \in at : \A k \in at : i <= k)

\* listS3Entries: ListObjectsV2 with Delimiter "/"
listS3Entries(b, prefix, normalizedPath) ==
  Bind({ SubSeq(k, Len(prefix) + 1, Len(k)) : k \in listS3Objects(b, prefix) }, LAMBDA rests :
  { [name |-> d, type |-> "dir"] :
      d \in { d \in { SubSeq(r, 1, FirstSep(r) - 1) : r \in { r \in rests : FirstSep(r) > 0 } } :
                d # <<>> /\ ~(normalizedPath = <<SEP>> /\ d = TRASH) } }
  \cup { [name |-> n, type |-> "file"] : n \in { r \in rests : FirstSep(r) = 0 /\ r # <<>> } })

handleS3List(b, ss, requestPath) ==
  LET req == [op |-> "list", path |-> requestPath] IN
  Bind(resolveSafeS3Path(requestPath, ss.rootReal), LAMBDA resolved :
  IF ~resolved.ok THEN ReplyS3(b, req @@ [code |-> 404]) ELSE
  Bind(getS3PathInfo(b, ss.rootReal, resolved.normalized), LAMBDA info :
  IF resolved.normalized # <<SEP>> /\ info.type = "none" THEN ReplyS3(b, req @@ [code |-> 404])
  ELSE IF resolved.normalized # <<SEP>> /\ info.type # "dir" THEN ReplyS3(b, req @@ [code |-> 400])
  ELSE
  Bind(toS3Prefix(ss.rootReal, resolved.normalized), LAMBDA prefix :
  ReplyS3(b, req @@ [code |-> 200, loc |-> prefix,
                     entries |-> listS3Entries(b, prefix, resolved.normalized)]))))

handleS3Download(b, ss, requestPath) ==
  LET req == [op |-> "download", path |-> requestPath] IN
  IF requestPath = <<>> THEN ReplyS3(b, req @@ [code |-> 400]) ELSE
  Bind(resolveSafeS3Path(requestPath, ss.rootReal), LAMBDA resolved :
  IF ~resolved.ok THEN ReplyS3(b, req @@ [code |-> 404]) ELSE
  Bind(getS3PathInfo(b, ss.rootReal, resolved.normalized), LAMBDA info :
  IF info.type = "none" THEN ReplyS3(b, req @@ [code |-> 404])
  ELSE IF info.type # "file" THEN ReplyS3(b, req @@ [code |-> 400]) ELSE
  Bind(toS3Key(ss.rootReal, resolved.normalized), LAMBDA key :
  ReplyS3(b, req @@ [code |-> 200, loc |-> key, body |-> b[key].c]))))

handleS3EditSave(b, ss, requestPath, content) ==
  LET req == [op |-> "edit_save", path |-> requestPath] IN
  IF ~canWrite(ss.role) THEN ReplyS3(b, req @@ [code |-> 403])
  ELSE IF requestPath = <<>> THEN ReplyS3(b, req @@ [code |-> 400]) ELSE
  Bind(resolveSafeS3Path(requestPath, ss.rootReal), LAMBDA resolved :
  IF ~resolved.ok THEN ReplyS3(b, req @@ [code |-> 404]) ELSE
  Bind(getS3PathInfo(b, ss.rootReal, resolved.normalized), LAMBDA info :
  IF info.type = "none" THEN ReplyS3(b, req @@ [code |-> 404])
  ELSE IF info.type # "file" THEN ReplyS3(b, req @@ [code |-> 400])
  ELSE IF ~isTextEditable(SegsOf(resolved.normalized)) THEN ReplyS3(b, req @@ [code |-> 400])
  ELSE IF Len(utf8Encode(content)) > MAX_EDIT_BYTES THEN ReplyS3(b, req @@ [code |-> 413])
  ELSE ReplyS3(s3PutObject(b, toS3Key(ss.rootReal, resolved.normalized),
                           S3Object(utf8Encode(content))),
               req @@ [code |-> 200])))

handleS3EditOpen(b, ss, requestPath) ==
  LET req == [op |-> "edit_open", path |-> requestPath] IN
  IF requestPath = <<>> THEN ReplyS3(b, req @@ [code |-> 400]) ELSE
  Bind(resolveSafeS3Path(requestPath, ss.rootReal), LAMBDA resolved :
  IF ~resolved.ok THEN ReplyS3(b, req @@ [code |-> 404]) ELSE
  Bind(getS3PathInfo(b, ss.rootReal, resolved.normalized), LAMBDA info :
  IF info.type = "none" THEN ReplyS3(b, req @@ [code |-> 404])
  ELSE IF info.type # "file" THEN ReplyS3(b, req @@ [code |-> 400])
  ELSE IF ~isTextEditable(SegsOf(resolved.normalized)) THEN ReplyS3(b, req @@ [code |-> 400])
  ELSE IF info.size > MAX_EDIT_BYTES THEN ReplyS3(b, req @@ [code |-> 413]) ELSE
  Bind(toS3Key(ss.rootReal, resolved.normalized), LAMBDA key :
  ReplyS3(b, req @@ [code |-> 200, loc |-> key,
                     content |-> TextDecoderDecode(b[key].c)]))))

handleS3Mkdir(b, ss, parentPath, rawName) ==
  LET req == [op |-> "mkdir", path |-> parentPath, name |-> rawName] IN
  IF ~canWrite(ss.role) THEN ReplyS3(b, req @@ [code |-> 403]) ELSE
  Bind(sanitizeName(rawName), LAMBDA name :
  IF name = <<>> THEN ReplyS3(b, req @@ [code |-> 400]) ELSE
  Bind(resolveSafeS3Path(parentPath, ss.rootReal), LAMBDA parent :
  IF ~parent.ok THEN ReplyS3(b, req @@ [code |-> 404]) ELSE
  Bind(getS3PathInfo(b, ss.rootReal, parent.normalized), LAMBDA parentInfo :
  IF parentInfo.type = "none" THEN ReplyS3(b, req @@ [code |-> 404])
  ELSE IF parentInfo.type # "dir" THEN ReplyS3(b, req @@ [code |-> 400]) ELSE
  Bind(ChildPath(parent.normalized, name), LAMBDA createdPath :
  Bind(toS3Prefix(ss.rootReal, createdPath), LAMBDA prefix :
  IF s3PrefixExists(b, prefix) \/ s3ObjectExists(b, toS3Key(ss.rootReal, createdPath))
    THEN ReplyS3(b, req @@ [code |-> 409])
  ELSE ReplyS3(s3PutObject(b, prefix, S3Object(<<>>)), req @@ [code |-> 200]))))))

\* handleS3Upload, one file in the form
handleS3Upload(b, ss, targetPath, rawName, overwrite, bytes) ==
  LET req == [op |-> "upload", path |-> targetPath, name |-> rawName] IN
  IF ~canWrite(ss.role) THEN ReplyS3(b, req @@ [code |-> 403]) ELSE
  Bind(resolveSafeS3Path(targetPath, ss.rootReal), LAMBDA resolved :
  IF ~resolved.ok THEN ReplyS3(b, req @@ [code |-> 404]) ELSE
  Bind(getS3PathInfo(b, ss.rootReal, resolved.normalized), LAMBDA dirInfo :
  IF dirInfo.type = "none" THEN ReplyS3(b, req @@ [code |-> 404])
  ELSE IF dirInfo.type # "dir" THEN ReplyS3(b, req @@ [code |-> 400]) ELSE
  Bind(sanitizeName(rawName), LAMBDA fileName :
  IF fileName = <<>> THEN ReplyS3(b, req @@ [code |-> 400]) ELSE
  Bind(ChildPath(resolved.normalized, fileName), LAMBDA destPath :
  Bind(toS3Key(ss.rootReal, destPath), LAMBDA key :
  IF ~overwrite /\ (s3ObjectExists(b, key)
                     \/ s3PrefixExists(b, toS3Prefix(ss.rootReal, destPath)))
    THEN ReplyS3(b, req @@ [code |-> 409])
  ELSE ReplyS3(s3PutObject(b, key, S3Object(bytes)), req @@ [code |-> 200]))))))

handleS3Move(b, ss, from, to) ==
  LET req == [op |-> "move", from |-> from, to |-> to] IN
  IF ~canWrite(ss.role) THEN ReplyS3(b, req @@ [code |-> 403]) ELSE
  Bind(resolveSafeS3Path(from, ss.rootReal), LAMBDA fromResolved :
  IF ~fromResolved.ok THEN ReplyS3(b, req @@ [code |-> 404])
  ELSE IF fromResolved.normalized = <<SEP>> THEN ReplyS3(b, req @@ [code |-> 400]) ELSE
  Bind(resolveDestinationPathS3(to), LAMBDA dest :
  IF ~dest.ok THEN ReplyS3(b, req @@ [code |-> 400])
  ELSE IF dest.normalized = fromResolved.normalized THEN ReplyS3(b, req @@ [code |-> 400])
  ELSE IF getS3PathInfo(b, ss.rootReal, posixDirname(dest.normalized)).type # "dir"
    THEN ReplyS3(b, req @@ [code |-> 400])
  ELSE IF s3PathExists(b, ss.rootReal, dest.normalized) THEN ReplyS3(b, req @@ [code |-> 409])
  ELSE
  Bind(getS3PathInfo(b, ss.rootReal, fromResolved.normalized), LAMBDA info :
  IF info.type = "none" THEN ReplyS3(b, req @@ [code |-> 404])
  ELSE IF info.type = "dir" /\ StartsWith(dest.normalized, fromResolved.normalized \o <<SEP>>)
    THEN ReplyS3(b, req @@ [code |-> 400]) ELSE
  Bind(moveS3Path(b, ss.rootReal, fromResolved.normalized, dest.normalized, info.type),
       LAMBDA moved :
  ReplyS3(moved.s3, req @@ [code |-> IF moved.ok THEN 200 ELSE 500])))))

handleS3Copy(b, ss, from, to) ==
  LET req == [op |-> "copy", from |-> from, to |-> to] IN
  IF ~canWrite(ss.role) THEN ReplyS3(b, req @@ [code |-> 403]) ELSE
  Bind(resolveSafeS3Path(from, ss.rootReal), LAMBDA fromResolved :
  IF ~fromResolved.ok THEN ReplyS3(b, req @@ [code |-> 404]) ELSE
  Bind(resolveDestinationPathS3(to), LAMBDA dest :
  IF ~dest.ok THEN ReplyS3(b, req @@ [code |-> 400])
  ELSE IF getS3PathInfo(b, ss.rootReal, posixDirname(dest.normalized)).type # "dir"
    THEN ReplyS3(b, req @@ [code |-> 400])
  ELSE IF s3PathExists(b, ss.rootReal, dest.normalized) THEN ReplyS3(b, req @@ [code |-> 409])
  ELSE
  Bind(getS3PathInfo(b, ss.rootReal, fromResolved.normalized), LAMBDA info :
  IF info.type = "none" THEN ReplyS3(b, req @@ [code |-> 404])
  ELSE IF info.type = "dir" /\ StartsWith(dest.normalized, fromResolved.normalized \o <<SEP>>)
    THEN ReplyS3(b, req @@ [code |-> 400]) ELSE
  Bind(copyS3Path(b, ss.rootReal, fromResolved.normalized, dest.normalized, info.type),
       LAMBDA copied :
  ReplyS3(copied.s3, req @@ [code |-> IF copied.ok THEN 200 ELSE 500])))))

handleS3Trash(b, ss, requestPath, id, now) ==
  LET req == [op |-> "trash", path |-> requestPath] IN
  IF ~canWrite(ss.role) THEN ReplyS3(b, req @@ [code |-> 403]) ELSE
  Bind(resolveSafeS3Path(requestPath, ss.rootReal), LAMBDA resolved :
  IF ~resolved.ok THEN ReplyS3(b, req @@ [code |-> 404])
  ELSE IF resolved.normalized = <<SEP>> THEN ReplyS3(b, req @@ [code |-> 400]) ELSE
  Bind(getS3PathInfo(b, ss.rootReal, resolved.normalized), LAMBDA info :
  IF info.type = "none" THEN ReplyS3(b, req @@ [code |-> 404]) ELSE
  Bind(OrItem(sanitizeName(posixBasename(resolved.normalized))), LAMBDA fileName :
  Bind(moveS3Path(b, ss.rootReal, resolved.normalized,
                  <<SEP>> \o TRASH \o <<SEP>> \o TrashName(fileName, id), info.type),
       LAMBDA moved :
  IF ~moved.ok THEN ReplyS3(b, req @@ [code |-> 500]) ELSE
  Bind(TrashRecord(id, fileName, resolved.normalized, now, info.type = "dir",
                   IF info.type = "file" THEN info.size ELSE 0),
       LAMBDA record :
  ReplyS3(s3PutObject(moved.s3, getTrashPrefixesS3(ss.rootReal).metaPrefix \o id \o <<"J">>,
                      S3Json(record)),
          req @@ [code |-> 200, item |-> record]))))))

readS3TrashRecord(b, metaPrefix, id) ==
  Bind(metaPrefix \o id \o <<"J">>, LAMBDA key :
  IF key \notin DOMAIN b THEN NoJson ELSE
  Bind(b[key].j, LAMBDA j :
  IF j.k # "trash" THEN NoJson
  ELSE IF j.id = <<>> \/ j.trashName = <<>> \/ j.originalPath = <<>> THEN NoJson
  ELSE j))

handleS3TrashRestore(b, ss, id) ==
  LET req == [op |-> "restore", id |-> id] IN
  IF ~canWrite(ss.role) THEN ReplyS3(b, req @@ [code |-> 403])
  ELSE IF id = <<>> THEN ReplyS3(b, req @@ [code |-> 400]) ELSE
  Bind(getTrashPrefixesS3(ss.rootReal).metaPrefix, LAMBDA metaPrefix :
  Bind(readS3TrashRecord(b, metaPrefix, id), LAMBDA record :
  IF record.k = "none" THEN ReplyS3(b, req @@ [code |-> 404]) ELSE
  Bind(normalizeRequestPath(record.originalPath), LAMBDA normalized :
  IF normalized = <<SEP>> \/ StartsWith(normalized, <<SEP>> \o TRASH)
    THEN ReplyS3(b, req @@ [code |-> 400])
  ELSE IF getS3PathInfo(b, ss.rootReal, posixDirname(normalized)).type = "none"
    THEN ReplyS3(b, req @@ [code |-> 409])
  ELSE IF s3PathExists(b, ss.rootReal, normalized) THEN ReplyS3(b, req @@ [code |-> 409]) ELSE
  Bind(moveS3Path(b, ss.rootReal, <<SEP>> \o TRASH \o <<SEP>> \o record.trashName,
                  normalized, record.type),
       LAMBDA moved :
  IF ~moved.ok THEN ReplyS3(b, req @@ [code |-> 500])
  ELSE ReplyS3(s3DeleteObject(moved.s3, metaPrefix \o record.id \o <<"J">>),
               req @@ [code |-> 200, restored |-> normalized])))))

(***************************************************************************)
(* The chunked upload coordinator.  In local mode an upload is the         *)
(* directory UPLOAD_TMP_DIR/<uploadId> with meta.json and one <n>.part per *)
(* part; in S3 mode it is a multipart upload of the bucket.                *)
(***************************************************************************)
UPLOAD_TMP_DIR == << <<"t">>, <<"u">> >>

PartFile(n) == <<Digits[n], "P">>
IsPartName(seg) == Len(seg) = 2 /\ seg[2] = "P" /\ \E n \in 1..Len(Digits) : seg[1] = Digits[n]
PartNumberOf(seg) == CHOOSE n \in 1..Len(Digits) : seg[1] = Digits[n]

UploadMeta(uploadId, normalized, name, size, totalChunks, overwrite) ==
  [k |-> "upload", uploadId |-> uploadId, path |-> normalized, name |-> name,
   size |-> size, totalChunks |-> totalChunks, overwrite |-> overwrite]

\* POST /api/upload/init, local backend; uploadId is the value randomUUID()
\* returns when the handler gets that far
handleLocalUploadInit(f, ss, reqPath, rawName, size, totalChunks, overwrite, uploadId) ==
  LET req == [op |-> "upload_init", path |-> reqPath, name |-> rawName] IN
  IF ~canWrite(ss.role) THEN Reply(f, req @@ [code |-> 403])
  ELSE IF reqPath = <<>> \/ rawName = <<>> \/ totalChunks = 0 THEN Reply(f, req @@ [code |-> 400])
  ELSE
  Bind(sanitizeName(rawName), LAMBDA name :
  IF name = <<>> THEN Reply(f, req @@ [code |-> 400]) ELSE
  Bind(resolveSafePath(f, reqPath, ss.rootReal), LAMBDA resolved :
  IF ~resolved.ok THEN Reply(f, req @@ [code |-> 404])
  ELSE IF ~IsDir(f, resolved.fullPath) THEN Reply(f, req @@ [code |-> 400]) ELSE
  Bind(Append(resolved.fullPath, name), LAMBDA destPath :
  IF ~isWithinRoot(destPath, ss.rootReal) THEN Reply(f, req @@ [code |-> 400])
  ELSE IF ~overwrite /\ pathExists(f, destPath) THEN Reply(f, req @@ [code |-> 409]) ELSE
  Bind(pathJoin(UPLOAD_TMP_DIR, uploadId), LAMBDA dir :
  Bind(MkdirP(f, dir, 1), LAMBDA made :
  IF ~made.ok THEN Reply(f, req @@ [code |-> 500]) ELSE
  Bind(WriteThrough(made.fs, Append(dir, META_JSON),
                    JsonNode(UploadMeta(uploadId, resolved.normalized, name, size,
                                        totalChunks, overwrite))),
       LAMBDA written :
  IF ~written.ok THEN Reply(made.fs, req @@ [code |-> 500])
  ELSE Reply(written.fs, req @@ [code |-> 200, uploadId |-> uploadId])))))))

\* GET /api/upload/status, local backend
handleLocalUploadStatus(f, ss, uploadId) ==
  LET req == [op |-> "upload_status", uploadId |-> uploadId] IN
  IF uploadId = <<>> THEN Reply(f, req @@ [code |-> 400]) ELSE
  Bind(pathJoin(UPLOAD_TMP_DIR, uploadId), LAMBDA dir :
  IF ~IsDir(f, dir) THEN Reply(f, req @@ [code |-> 404])
  ELSE Reply(f, req @@ [code |-> 200,
         uploadedParts |-> { PartNumberOf(Last(q)) :
                               q \in { q \in Children(f, Follow(f, dir).p) : IsPartName(Last(q)) } }]))

\* POST /api/upload/chunk, local backend, up to the moment Bun.write has put
\* the first landed bytes of the chunk into the part file: code 0 says that
\* the write is under way, loc is the file it goes to
handleLocalUploadChunk(f, ss, uploadId, partNumber, data, landed) ==
  Bind(pathJoin(UPLOAD_TMP_DIR, uploadId), LAMBDA dir :
  IF ~pathExists(f, dir) THEN [fs |-> f, code |-> 404, loc |-> <<>>] ELSE
  Bind(Append(dir, PartFile(partNumber)), LAMBDA chunkPath :
  Bind(WriteThrough(f, chunkPath, FileNode(SubSeq(data, 1, landed))), LAMBDA w :
  IF ~w.ok THEN [fs |-> f, code |-> 500, loc |-> <<>>]
  ELSE [fs |-> w.fs, code |-> 0, loc |-> Follow(f, chunkPath).p])))

\* POST /api/upload/complete, local backend, up to fs.open(destPath, "w"):
\* code 0 says that the file is open and the assembly loop starts
handleLocalUploadComplete(f, ss, uploadId, totalChunks) ==
  LET Stop(code) == [fs |-> f, code |-> code, dir |-> <<>>, loc |-> <<>>] IN
  Bind(pathJoin(UPLOAD_TMP_DIR, uploadId), LAMBDA dir :
  Bind(Append(dir, META_JSON), LAMBDA metaFile :
  IF ~IsFile(f, metaFile) THEN Stop(404) ELSE
  Bind(f[Follow(f, metaFile).p].j, LAMBDA meta :
  IF meta.k # "upload" THEN Stop(500) ELSE
  Bind(resolveSafePath(f, meta.path, ss.rootReal), LAMBDA resolved :
  IF ~resolved.ok THEN Stop(404) ELSE
  Bind(pathJoin(resolved.fullPath, meta.name), LAMBDA destPath :
  IF ~isWithinRoot(destPath, ss.rootReal) THEN Stop(400)
  ELSE IF ~meta.overwrite /\ pathExists(f, destPath) THEN Stop(409) ELSE
  Bind(WriteThrough(f, destPath, FileNode(<<>>)), LAMBDA opened :
  IF ~opened.ok THEN Stop(500)
  ELSE [fs |-> opened.fs, code |-> 0, dir |-> dir, loc |-> Follow(f, destPath).p]))))))

\* writing data at offset pos of a file: what lies before pos is kept (a hole
\* reads as zeros), and so is what lies behind the written bytes
WriteAt(c, pos, data) ==
  [i \in 1..(IF Len(c) > pos + Len(data) THEN Len(c) ELSE pos + Len(data)) |->
     IF i > pos /\ i <= pos + Len(data) THEN data[i - pos]
     ELSE IF i <= Len(c) THEN c[i] ELSE 0]

\* the bytes of parts[from], parts[from + 1], ..., parts[to]
RECURSIVE ConcatParts(_, _, _)
ConcatParts(parts, from, to) ==
  IF from > to THEN <<>> ELSE parts[from] \o ConcatParts(parts, from + 1, to)

\* the part numbers of a set in ascending order
RECURSIVE SortedParts(_)
SortedParts(ns) ==
  IF ns = {} THEN <<>> ELSE
  Bind(CHOOSE n \in ns : \A m \in ns : n <= m, LAMBDA least :
  <<least>> \o SortedParts(ns \ {least}))

\* the object CompleteMultipartUpload builds from the parts handed to it
RECURSIVE AssembleS3(_, _)
AssembleS3(parts, order) ==
  IF order = <<>> THEN <<>> ELSE parts[Head(order)] \o AssembleS3(parts, Tail(order))

\* POST /api/upload/init, S3 backend
handleS3UploadInit(b, ss, reqPath, rawName, totalChunks, overwrite, uploadId) ==
  LET req == [op |-> "upload_init", path |-> reqPath, name |-> rawName] IN
  IF ~canWrite(ss.role) THEN ReplyS3(b, req @@ [code |-> 403])
  ELSE IF reqPath = <<>> \/ rawName = <<>> \/ totalChunks = 0
    THEN ReplyS3(b, req @@ [code |-> 400]) ELSE
  Bind(sanitizeName(rawName), LAMBDA name :
  IF name = <<>> THEN ReplyS3(b, req @@ [code |-> 400]) ELSE
  Bind(resolveSafeS3Path(reqPath, ss.rootReal), LAMBDA resolved :
  IF ~resolved.ok THEN ReplyS3(b, req @@ [code |-> 404]) ELSE
  Bind(getS3PathInfo(b, ss.rootReal, resolved.normalized), LAMBDA dirInfo :
  IF dirInfo.type = "none" THEN ReplyS3(b, req @@ [code |-> 404])
  ELSE IF dirInfo.type # "dir" THEN ReplyS3(b, req @@ [code |-> 400]) ELSE
  Bind(ChildPath(resolved.normalized, name), LAMBDA destPath :
  Bind(toS3Key(ss.rootReal, destPath), LAMBDA key :
  IF ~overwrite /\ (s3ObjectExists(b, key)
                     \/ s3PrefixExists(b, toS3Prefix(ss.rootReal, destPath)))
    THEN ReplyS3(b, req @@ [code |-> 409])
  ELSE ReplyS3(b, req @@ [code |-> 200, uploadId |-> uploadId, key |-> key]))))))

\* ListParts / UploadPart / CompleteMultipartUpload know an upload by its id
\* and key together
S3UploadKnown(m, uploadId, key) == uploadId \in DOMAIN m /\ m[uploadId].key = key

\* ListParts answers with one page, the parts with the lowest numbers: 1000
\* parts when the request names no MaxParts, as here.  The handlers read no
\* second page.  The model's page is LIST_PARTS_PAGE parts.
LIST_PARTS_PAGE == 2

ListParts(m, uploadId) ==
  Bind(m[uploadId].parts, LAMBDA parts :
  [n \in { n \in DOMAIN parts :
             Cardinality({ k \in DOMAIN parts : k < n }) < LIST_PARTS_PAGE } |-> parts[n]])

\* GET /api/upload/status, S3 backend: the error of ListParts is caught
handleS3UploadStatus(m, uploadId, key) ==
  IF ~S3UploadKnown(m, uploadId, key) THEN [code |-> 404]
  ELSE [code |-> 200, uploadedParts |-> DOMAIN ListParts(m, uploadId)]

\* POST /api/upload/chunk, S3 backend: the error of UploadPart is not caught
handleS3UploadChunk(m, uploadId, key, partNumber, data) ==
  IF ~S3UploadKnown(m, uploadId, key) THEN [mpu |-> m, code |-> 500]
  ELSE [mpu |-> [m EXCEPT ![uploadId].parts = (partNumber :> data) @@ @], code |-> 200]

\* POST /api/upload/complete, S3 backend, up to the answer of ListParts: code
\* 0 says that CompleteMultipartUpload is sent with the parts listed
handleS3UploadComplete(m, uploadId, key, totalChunks) ==
  IF ~S3UploadKnown(m, uploadId, key) THEN [code |-> 500, listed |-> <<>>] ELSE
  Bind(ListParts(m, uploadId), LAMBDA parts :
  IF Cardinality(DOMAIN parts) < totalChunks THEN [code |-> 409, listed |-> <<>>]
  ELSE [code |-> 0, listed |-> parts])

\* CompleteMultipartUpload with the parts listed, in ascending order: it
\* fails when the upload is gone or a listed part has been replaced since
CompleteMultipartUpload(b, m, uploadId, key, listed) ==
  IF ~S3UploadKnown(m, uploadId, key) THEN [s3 |-> b, mpu |-> m, code |-> 500]
  ELSE IF \E n \in DOMAIN listed : n \notin DOMAIN m[uploadId].parts
                                     \/ m[uploadId].parts[n] # listed[n]
    THEN [s3 |-> b, mpu |-> m, code |-> 500]
  ELSE [s3 |-> s3PutObject(b, key, S3Object(AssembleS3(listed, SortedParts(DOMAIN listed)))),
        mpu |-> [u \in DOMAIN m \ {uploadId} |-> m[u]],
        code |-> 200]

(***************************************************************************)
(* State                                                                   *)
(***************************************************************************)
VARIABLES
  mode,      \* STORAGE_MODE: "local" or "s3"
  fs,        \* the local filesystem: real path -> node
  s3,        \* the bucket: key -> object
  mpu,       \* the bucket's multipart uploads in progress: uploadId -> upload
  inflight,  \* the requests that are between two of their awaits
  resp,      \* the response sent last
  nextId,    \* how many randomUUID() values were drawn
  sent,      \* history: uploadId -> what init was asked, the bytes of the last
             \* chunk request that returned ok per part number, and whether a
             \* complete request has returned ok
  steps,     \* how many requests were served
  input,     \* the raw request path handed to the resolver; in the client's
             \* specification, the local variables of the upload loop
  role,      \* the role of the signed-in user
  shares,    \* SHARE_MAP: token -> share record
  snap       \* history: the stores as they were before the last trash request
             \* that returned ok

vars == <<mode, fs, s3, mpu, inflight, resp, nextId, sent, steps, input, role, shares, snap>>

(***************************************************************************)
(* The machine: FILE_ROOT is /r and is the user's root; /rx is a sibling   *)
(* directory outside it whose string form has the root's as a prefix; /t   *)
(* is os.tmpdir() and /t/u is UPLOAD_TMP_DIR.                              *)
(***************************************************************************)
ROOT_REAL == << <<"r">> >>
OUTSIDE == << <<"r", "x">> >>
TMPDIR == << <<"t">> >>

NoResp == [op |-> "none"]

BaseFs ==
  (<<>> :> DirNode) @@ (ROOT_REAL :> DirNode) @@ (TMPDIR :> DirNode)
  @@ (OUTSIDE :> DirNode) @@ (Append(OUTSIDE, <<"s">>) :> FileNode(<<9>>))

\* where a symbolic link found inside the root may point
LinkTargets ==
  { OUTSIDE, Append(OUTSIDE, <<"s">>), Append(OUTSIDE, <<"n">>),
    Append(ROOT_REAL, <<"a">>), Append(ROOT_REAL, TRASH), ROOT_REAL, <<>>,
    Append(ROOT_REAL, <<"l">>) }

\* the root holds the directory a with the file a/a, and may hold the link l
\* and the trash directory
TreeFs ==
  BaseFs @@ (Append(ROOT_REAL, <<"a">>) :> DirNode)
  @@ (ROOT_REAL \o << <<"a">>, <<"a">> >> :> FileNode(<<1>>))

TrashFs ==
  (Append(ROOT_REAL, TRASH) :> DirNode) @@ (ROOT_REAL \o <<TRASH, <<"a">> >> :> FileNode(<<2>>))

ResolveFsSet ==
  { TreeFs } \cup { TreeFs @@ TrashFs }
  \cup { TreeFs @@ (Append(ROOT_REAL, <<"l">>) :> LinkNode(to)) : to \in LinkTargets }
  \cup { TreeFs @@ TrashFs @@ (Append(ROOT_REAL, <<"l">>) :> LinkNode(to)) : to \in LinkTargets }

RawChars == {SEP, BSL, DOT, SPC, "T", "a", "l", "r"}

\* longest raw request path handed to the resolver
MaxRawLen == 4

RECURSIVE StringsUpTo(_, _)
StringsUpTo(chars, n) ==
  IF n = 0 THEN { <<>> }
  ELSE LET shorter == StringsUpTo(chars, n - 1) IN
    shorter \cup { Append(s, ch) : s \in { x \in shorter : Len(x) = n - 1 }, ch \in chars }

RawPaths == StringsUpTo(RawChars, MaxRawLen)

(***************************************************************************)
(* The requests of one signed-in user.  session.rootReal is the real path  *)
(* of the user's root in local mode and the key prefix in S3 mode.         *)
(***************************************************************************)
S3_ROOT == <<"r", SEP>>

Session ==
  [user |-> "u", role |-> role,
   rootReal |-> IF mode = "local" THEN ROOT_REAL ELSE S3_ROOT]

\* the effect of a handler that runs from request to response in one go
Serve(localReply, s3Reply) ==
  IF mode = "local"
    THEN fs' = localReply.fs /\ resp' = localReply.resp /\ s3' = s3
    ELSE s3' = s3Reply.s3 /\ resp' = s3Reply.resp /\ fs' = fs

\* most requests one behaviour serves
MaxSteps == 2

Served == steps < MaxSteps /\ steps' = steps + 1

ListReq(path) ==
  /\ Serve(localList(fs, Session, path), handleS3List(s3, Session, path))
  /\ UNCHANGED <<mode, mpu, inflight, nextId, sent, input, role, shares, snap>>
List(path) == Served /\ ListReq(path)

DownloadReq(path) ==
  /\ Serve(localDownload(fs, Session, path), handleS3Download(s3, Session, path))
  /\ UNCHANGED <<mode, mpu, inflight, nextId, sent, input, role, shares, snap>>
Download(path) == Served /\ DownloadReq(path)

EditSaveReq(path, content) ==
  /\ Serve(localEditSave(fs, Session, path, content),
           handleS3EditSave(s3, Session, path, content))
  /\ UNCHANGED <<mode, mpu, inflight, nextId, sent, input, role, shares, snap>>
EditSave(path, content) == Served /\ EditSaveReq(path, content)

MkdirReq(path, name) ==
  /\ Serve(localMkdir(fs, Session, path, name), handleS3Mkdir(s3, Session, path, name))
  /\ UNCHANGED <<mode, mpu, inflight, nextId, sent, input, role, shares, snap>>
Mkdir(path, name) == Served /\ MkdirReq(path, name)

UploadReq(path, name, overwrite, bytes) ==
  /\ Serve(localUpload(fs, Session, path, name, overwrite, bytes),
           handleS3Upload(s3, Session, path, name, overwrite, bytes))
  /\ UNCHANGED <<mode, mpu, inflight, nextId, sent, input, role, shares, snap>>
Upload(path, name, overwrite, bytes) == Served /\ UploadReq(path, name, overwrite, bytes)

MoveReq(from, to) ==
  /\ Serve(localMove(fs, Session, from, to), handleS3Move(s3, Session, from, to))
  /\ UNCHANGED <<mode, mpu, inflight, nextId, sent, input, role, shares, snap>>
Move(from, to) == Served /\ MoveReq(from, to)

CopyReq(from, to) ==
  /\ Serve(localCopy(fs, Session, from, to), handleS3Copy(s3, Session, from, to))
  /\ UNCHANGED <<mode, mpu, inflight, nextId, sent, input, role, shares, snap>>
Copy(from, to) == Served /\ CopyReq(from, to)

\* randomUUID() is drawn once the path has been found
TrashReq(path) ==
  /\ Serve(localTrash(fs, Session, path, Uuid(nextId + 1), steps),
           handleS3Trash(s3, Session, path, Uuid(nextId + 1), steps))
  /\ nextId' = IF resp'.code \in {403, 404, 400} THEN nextId ELSE nextId + 1
  /\ snap' = IF resp'.code = 200 THEN [fs |-> fs, s3 |-> s3] ELSE snap
  /\ UNCHANGED <<mode, mpu, inflight, sent, input, role, shares>>
Trash(path) == Served /\ TrashReq(path)

RestoreReq(id) ==
  /\ Serve(localRestore(fs, Session, id), handleS3TrashRestore(s3, Session, id))
  /\ UNCHANGED <<mode, mpu, inflight, nextId, sent, input, role, shares, snap>>
Restore(id) == Served /\ RestoreReq(id)

(***************************************************************************)
(* The file requests, each served from request to response before the next *)
(* one starts.  The root holds the directory a with the file a/a, the text *)
(* file f.x and, in local mode, possibly a symbolic link l that leads out  *)
(* of the root.  No trash directory exists yet.                            *)
(***************************************************************************)
FILE_X == <<"f", DOT, "x">>

OutsideTargets == { OUTSIDE, Append(OUTSIDE, <<"s">>), Append(OUTSIDE, <<"n">>) }

FileFs == TreeFs @@ (Append(ROOT_REAL, FILE_X) :> FileNode(<<3>>))

FileFsSet ==
  { FileFs } \cup { FileFs @@ (Append(ROOT_REAL, <<"l">>) :> LinkNode(to)) : to \in OutsideTargets }

FileBucket ==
  (S3_ROOT \o <<"a", SEP, "a">> :> S3Object(<<1>>)) @@ (S3_ROOT \o FILE_X :> S3Object(<<3>>))

OpPaths ==
  { <<SEP>>, <<SEP, "a">>, <<SEP, "a", SEP, "a">>, <<SEP>> \o FILE_X, <<SEP, "l">>,
    <<SEP>> \o TRASH, <<SEP, "n">> }

OpNames == { <<"l">>, TRASH, <<"n">>, FILE_X }

OpBytes == { <<5>> }

Init ==
  /\ mode \in {"local", "s3"}
  /\ fs \in IF mode = "local" THEN FileFsSet ELSE { BaseFs }
  /\ s3 = IF mode = "s3" THEN FileBucket ELSE <<>>
  /\ mpu = <<>>
  /\ inflight = {}
  /\ resp = NoResp
  /\ nextId = 0
  /\ sent = <<>>
  /\ steps = 0
  /\ input = <<>>
  /\ role = "read-write"
  /\ shares = <<>>
  /\ snap = <<>>

Next ==
  \/ \E path \in OpPaths : List(path)
  \/ \E path \in OpPaths : Download(path)
  \/ \E path \in OpPaths, content \in OpBytes : EditSave(path, content)
  \/ \E path \in OpPaths, name \in OpNames : Mkdir(path, name)
  \/ \E path \in OpPaths, name \in OpNames, overwrite \in BOOLEAN, bytes \in OpBytes :
       Upload(path, name, overwrite, bytes)
  \/ \E from \in OpPaths, to \in OpPaths : Move(from, to)
  \/ \E from \in OpPaths, to \in OpPaths : Copy(from, to)
  \/ \E path \in OpPaths : Trash(path)
  \/ \E n \in 1..MaxSteps : Restore(Uuid(n))

Spec == Init /\ [][Next]_vars

\* what lies outside the user's root on the local disk
Outside(f) == { <<p, f[p]>> : p \in { q \in DOMAIN f : ~IsPrefix(ROOT_REAL, q) } }

\* where the operating system ends when it opens the virtual path v below the
\* root, following every symbolic link on the way
Opens(f, v) == Follow(f, ROOT_REAL \o SegsOf(normalizeRequestPath(v)))

\* the virtual path v leads through a symbolic link of the root to a place
\* outside the root
Escapes(f, v) == Opens(f, v).r # "err" /\ ~IsPrefix(ROOT_REAL, Opens(f, v).p)

\* the virtual paths a request reads or takes its source from, and all the
\* virtual paths it names
SourcesOf(r) ==
  IF r.op \in {"list", "download", "edit_save", "trash"} THEN { r.path }
  ELSE IF r.op \in {"move", "copy"} THEN { r.from }
  ELSE {}

PathsOf(r) == SourcesOf(r) \cup (IF r.op \in {"move", "copy"} THEN { r.to } ELSE {})

\* a request has been served by this step
Request == steps' = steps + 1

\* C2: a list, download, edit, move, copy or trash request on a virtual path
\* that leads through a symbolic link to a place outside the root does not
\* reach that place: the request is refused when the path is what it reads
\* or its source, and everything outside the root stays as it was.
C2_Counterexample ==
  [][ (Request /\ mode = "local")
        => /\ (\E v \in SourcesOf(resp') : Escapes(fs, v)) => resp'.code >= 400
           /\ (\E v \in PathsOf(resp') : Escapes(fs, v)) => Outside(fs') = Outside(fs) ]_vars

\* C3: whatever upload, mkdir, move, copy, edit-save or restore creates,
\* overwrites or removes lies inside the user's root: nothing outside the
\* root changes.
C3_Counterexample ==
  [][ (Request /\ resp'.op \in {"upload", "mkdir", "move", "copy", "edit_save", "restore"})
        => Outside(fs') = Outside(fs) ]_vars

\* what the trash holds: the local entries at and under <root>/.trash, the
\* objects at and under the key <root>.trash
TrashView(f, b) ==
  << { <<p, f[p]>> : p \in { q \in DOMAIN f : IsPrefix(Append(ROOT_REAL, TRASH), q) } },
     { <<k, b[k]>> : k \in { q \in DOMAIN b : StartsWith(q, S3_ROOT \o TRASH) } } >>

\* the virtual path an ordinary request is aimed at
TargetsOf(r) ==
  IF r.op \in {"list", "download", "edit_save"} THEN { normalizeRequestPath(r.path) }
  ELSE IF r.op \in {"move", "copy"} THEN { normalizeRequestPath(r.from), normalizeRequestPath(r.to) }
  ELSE IF r.op \in {"mkdir", "upload"}
    THEN { normalizeRequestPath(r.path), ChildPath(normalizeRequestPath(r.path), r.name) }
  ELSE {}

\* C4: an ordinary request aimed at /.trash or below it, directly or as a
\* parent path plus a name, is refused and changes nothing, on both back
\* ends; only trash and restore change what lies at or under /.trash.
C4_Counterexample ==
  [][ (Request /\ resp'.op \notin {"trash", "restore"})
        => /\ TrashView(fs', s3') = TrashView(fs, s3)
           /\ (\E v \in TargetsOf(resp') : IsTrashPath(v))
                => (resp'.code >= 400 /\ fs' = fs /\ s3' = s3) ]_vars

(***************************************************************************)
(* The upload requests.  The handlers of the chunk and of the completion   *)
(* await between their file operations, and other requests run in between: *)
(* such a request is a record of inflight from its first step to its       *)
(* response.  cap is the number of requests the client keeps under way at  *)
(* a time, ids the number of uploads it starts.                            *)
(***************************************************************************)
FreeSlot(cap) == CHOOSE n \in 1..cap : \A r \in inflight : r.rid # n
Room(cap) == Cardinality(inflight) < cap

Respond(r) == resp' = r

NoteSent(uploadId, part, data) ==
  IF uploadId \in DOMAIN sent
    THEN [sent EXCEPT ![uploadId].parts = (part :> data) @@ @]
    ELSE sent

NoteDone(uploadId, code) ==
  IF uploadId \in DOMAIN sent /\ code = 200
    THEN [sent EXCEPT ![uploadId].done = TRUE]
    ELSE sent

\* POST /api/upload/init
UploadInit(cap, ids, path, name, total, overwrite) ==
  LET uploadId == Uuid(nextId + 1)
      lr == handleLocalUploadInit(fs, Session, path, name, 0, total, overwrite, uploadId)
      sr == handleS3UploadInit(s3, Session, path, name, total, overwrite, uploadId)
  IN /\ Room(cap)
     /\ nextId < ids
     /\ Serve(lr, sr)
     /\ mpu' = IF mode = "s3" /\ sr.resp.code = 200
                 THEN (uploadId :> [key |-> sr.resp.key, parts |-> <<>>]) @@ mpu
                 ELSE mpu
     /\ nextId' = IF resp'.code = 200 THEN nextId + 1 ELSE nextId
     /\ sent' = IF resp'.code = 200
                  THEN (uploadId :> [overwrite |-> overwrite, total |-> total,
                                     parts |-> <<>>, done |-> FALSE]) @@ sent
                  ELSE sent
     /\ UNCHANGED <<mode, inflight, steps, input, role, shares, snap>>

\* GET /api/upload/status
UploadStatus(cap, uploadId, key) ==
  LET req == [op |-> "upload_status", uploadId |-> uploadId] IN
  /\ Room(cap)
  /\ IF mode = "local" THEN Respond(handleLocalUploadStatus(fs, Session, uploadId).resp)
     ELSE IF uploadId = <<>> \/ key = <<>> THEN Respond(req @@ [code |-> 400])
     ELSE Respond(req @@ handleS3UploadStatus(mpu, uploadId, key))
  /\ UNCHANGED <<mode, fs, s3, mpu, inflight, nextId, sent, steps, input, role, shares, snap>>

\* POST /api/upload/chunk up to the start of Bun.write (local), or all of it
\* (S3: UploadPart stores the part in one step)
UploadChunk(cap, uploadId, key, partNumber, data) ==
  LET req == [op |-> "upload_chunk", uploadId |-> uploadId, part |-> partNumber] IN
  /\ Room(cap)
  /\ IF ~canWrite(Session.role)
       THEN Respond(req @@ [code |-> 403]) /\ UNCHANGED <<fs, mpu, inflight, sent>>
     ELSE IF partNumber <= 0
       THEN Respond(req @@ [code |-> 400]) /\ UNCHANGED <<fs, mpu, inflight, sent>>
     ELSE IF mode = "local"
       THEN \E landed \in 0..(Len(data) - 1) :
            \E out \in { handleLocalUploadChunk(fs, Session, uploadId, partNumber, data, landed) } :
              /\ fs' = out.fs
              /\ IF out.code = 0
                   THEN /\ inflight' = inflight \cup
                             { [rid |-> FreeSlot(cap), op |-> "chunk", uploadId |-> uploadId,
                                part |-> partNumber, data |-> data, loc |-> out.loc] }
                        /\ UNCHANGED resp
                   ELSE Respond(req @@ [code |-> out.code]) /\ UNCHANGED inflight
              /\ UNCHANGED <<mpu, sent>>
     ELSE \E out \in { handleS3UploadChunk(mpu, uploadId, key, partNumber, data) } :
            /\ mpu' = out.mpu
            /\ sent' = IF out.code = 200 THEN NoteSent(uploadId, partNumber, data) ELSE sent
            /\ Respond(req @@ [code |-> out.code])
            /\ UNCHANGED <<fs, inflight>>
  /\ UNCHANGED <<mode, s3, nextId, steps, input, role, shares, snap>>

\* Bun.write has written all the bytes of the chunk: the response is sent
UploadChunkWritten(r) ==
  /\ r.op = "chunk"
  /\ fs' = IF r.loc \in DOMAIN fs THEN [fs EXCEPT ![r.loc] = FileNode(r.data)] ELSE fs
  /\ inflight' = inflight \ {r}
  /\ sent' = NoteSent(r.uploadId, r.part, r.data)
  /\ Respond([op |-> "upload_chunk", uploadId |-> r.uploadId, part |-> r.part, code |-> 200])
  /\ UNCHANGED <<mode, s3, mpu, nextId, steps, input, role, shares, snap>>

\* POST /api/upload/complete up to fs.open(destPath, "w") (local), or up to
\* the answer of ListParts (S3)
UploadComplete(cap, uploadId, key, totalChunks) ==
  LET req == [op |-> "upload_complete", uploadId |-> uploadId, total |-> totalChunks] IN
  /\ Room(cap)
  /\ IF ~canWrite(Session.role)
       THEN Respond(req @@ [code |-> 403]) /\ UNCHANGED <<fs, inflight>>
     ELSE IF uploadId = <<>> \/ totalChunks = 0
       THEN Respond(req @@ [code |-> 400]) /\ UNCHANGED <<fs, inflight>>
     ELSE IF mode = "local"
       THEN \E out \in { handleLocalUploadComplete(fs, Session, uploadId, totalChunks) } :
              /\ fs' = out.fs
              /\ IF out.code = 0
                   THEN /\ inflight' = inflight \cup
                             { [rid |-> FreeSlot(cap), op |-> "complete", uploadId |-> uploadId,
                                dir |-> out.dir, loc |-> out.loc, total |-> totalChunks,
                                part |-> 1, pos |-> 0,
                                before |-> IF out.loc \in DOMAIN fs THEN << fs[out.loc] >>
                                           ELSE <<>>] }
                        /\ UNCHANGED resp
                   ELSE Respond(req @@ [code |-> out.code]) /\ UNCHANGED inflight
     ELSE IF key = <<>>
       THEN Respond(req @@ [code |-> 400]) /\ UNCHANGED <<fs, inflight>>
     ELSE \E out \in { handleS3UploadComplete(mpu, uploadId, key, totalChunks) } :
            /\ IF out.code = 0
                 THEN /\ inflight' = inflight \cup
                           { [rid |-> FreeSlot(cap), op |-> "s3complete", uploadId |-> uploadId,
                              key |-> key, total |-> totalChunks, listed |-> out.listed,
                              before |-> IF key \in DOMAIN s3 THEN << s3[key] >> ELSE <<>>] }
                      /\ UNCHANGED resp
                 ELSE Respond(req @@ [code |-> out.code]) /\ UNCHANGED inflight
            /\ UNCHANGED fs
  /\ UNCHANGED <<mode, s3, mpu, nextId, sent, steps, input, role, shares, snap>>

\* one round of the assembly loop: read <part>.part, write it to the handle;
\* a failed read closes the handle and answers 500
CompleteAssemble(r) ==
  /\ r.op = "complete"
  /\ r.part <= r.total
  /\ \E chunkPath \in { Append(r.dir, PartFile(r.part)) } :
       IF ~IsFile(fs, chunkPath)
         THEN /\ inflight' = inflight \ {r}
              /\ Respond([op |-> "upload_complete", uploadId |-> r.uploadId, total |-> r.total,
                          code |-> 500])
              /\ UNCHANGED fs
         ELSE \E data \in { fs[Follow(fs, chunkPath).p].c } :
                /\ fs' = IF r.loc \in DOMAIN fs /\ fs[r.loc].t = "file"
                           THEN [fs EXCEPT ![r.loc] = FileNode(WriteAt(fs[r.loc].c, r.pos, data))]
                           ELSE fs
                /\ inflight' = (inflight \ {r})
                                 \cup { [r EXCEPT !.part = r.part + 1, !.pos = r.pos + Len(data)] }
                /\ UNCHANGED resp
  /\ UNCHANGED <<mode, s3, mpu, nextId, sent, steps, input, role, shares, snap>>

\* the loop is over: close the handle, remove the upload directory, answer
CompleteFinish(r) ==
  /\ r.op = "complete"
  /\ r.part > r.total
  /\ fs' = RmRecursive(fs, r.dir)
  /\ inflight' = inflight \ {r}
  /\ sent' = NoteDone(r.uploadId, 200)
  /\ Respond([op |-> "upload_complete", uploadId |-> r.uploadId, total |-> r.total,
              code |-> 200, dest |-> r.loc])
  /\ UNCHANGED <<mode, s3, mpu, nextId, steps, input, role, shares, snap>>

\* the answer of CompleteMultipartUpload
S3CompleteCommit(r) ==
  /\ r.op = "s3complete"
  /\ inflight' = inflight \ {r}
  /\ \E out \in { CompleteMultipartUpload(s3, mpu, r.uploadId, r.key, r.listed) } :
       /\ s3' = out.s3
       /\ mpu' = out.mpu
       /\ sent' = NoteDone(r.uploadId, out.code)
       /\ Respond([op |-> "upload_complete", uploadId |-> r.uploadId, total |-> r.total,
                   code |-> out.code, dest |-> r.key])
  /\ UNCHANGED <<mode, fs, nextId, steps, input, role, shares, snap>>

(***************************************************************************)
(* One client uploading the file f to the root in chunks.  It names the    *)
(* upload ids init gave it and two it was never given; a plain upload     *)
(* that overwrites f may come in between.                                  *)
(***************************************************************************)
\* most parts of an upload
MaxParts == 3
\* most uploads the client starts
MaxUploads == 1

FILE_F == <<"f">>
UploadKey == S3_ROOT \o FILE_F
ChunkData == { <<1>>, <<2, 3>> }
JunkIds == { DOTDOT, <<"x">> }
GivenIds == { Uuid(n) : n \in 1..MaxUploads }
UploadIds == GivenIds \cup JunkIds

\* the root holds no symbolic link
InitUpload == Init /\ (mode = "local" => fs = FileFs)

UploadNext(cap) ==
  \/ \E total \in 1..MaxParts, overwrite \in BOOLEAN :
       UploadInit(cap, MaxUploads, <<SEP>>, FILE_F, total, overwrite)
  \/ \E uploadId \in UploadIds : UploadStatus(cap, uploadId, UploadKey)
  \/ \E uploadId \in GivenIds, partNumber \in 1..MaxParts, data \in ChunkData :
       UploadChunk(cap, uploadId, UploadKey, partNumber, data)
  \/ \E uploadId \in JunkIds : UploadChunk(cap, uploadId, UploadKey, 1, <<1>>)
  \/ \E r \in inflight : UploadChunkWritten(r)
  \/ \E uploadId \in UploadIds, total \in 1..MaxParts :
       UploadComplete(cap, uploadId, UploadKey, total)
  \/ \E r \in inflight : CompleteAssemble(r)
  \/ \E r \in inflight : CompleteFinish(r)
  \/ \E r \in inflight : S3CompleteCommit(r)
  \/ Room(cap) /\ Upload(<<SEP>>, FILE_F, TRUE, <<5>>)

\* the client waits for each response before it sends the next request
NextUploadSeq == UploadNext(1)
SpecUploadSeq == InitUpload /\ [][NextUploadSeq]_vars

\* the client keeps two requests under way; its upload has at most MaxConcParts
\* parts of two bytes each
MaxInflight == 2
MaxConcParts == 2

NextUploadConc ==
  \/ \E total \in 1..MaxConcParts, overwrite \in BOOLEAN :
       UploadInit(MaxInflight, MaxUploads, <<SEP>>, FILE_F, total, overwrite)
  \/ \E uploadId \in GivenIds : UploadStatus(MaxInflight, uploadId, UploadKey)
  \/ \E uploadId \in GivenIds, partNumber \in 1..MaxConcParts :
       UploadChunk(MaxInflight, uploadId, UploadKey, partNumber, <<2, 3>>)
  \/ \E r \in inflight : UploadChunkWritten(r)
  \/ \E uploadId \in GivenIds, total \in 1..MaxConcParts :
       UploadComplete(MaxInflight, uploadId, UploadKey, total)
  \/ \E r \in inflight : CompleteAssemble(r)
  \/ \E r \in inflight : CompleteFinish(r)
  \/ \E r \in inflight : S3CompleteCommit(r)

SpecUploadConc == InitUpload /\ [][NextUploadConc]_vars

(***************************************************************************)
(* What the upload claims speak of.                                        *)
(***************************************************************************)
\* this step sends the response of a request
Answered == inflight' = inflight \/ Cardinality(inflight') < Cardinality(inflight)

\* init gave out the upload id and no complete of it has succeeded yet
InProgress(uploadId) == uploadId \in DOMAIN sent /\ ~sent[uploadId].done

\* the item at the destination of the upload: none, or the one there is
DestItem(f, b) ==
  IF mode = "local"
    THEN IF Append(ROOT_REAL, FILE_F) \in DOMAIN f THEN << f[Append(ROOT_REAL, FILE_F)] >> ELSE <<>>
    ELSE IF UploadKey \in DOMAIN b THEN << b[UploadKey] >> ELSE <<>>

\* the contents an upload of n parts can have
WholeContents(n) == { ConcatParts(parts, 1, n) : parts \in [1..n -> ChunkData] }

\* this step takes in a complete request for the upload
CompleteReceived(uploadId) ==
  \/ inflight' = inflight /\ resp' # resp
       /\ resp'.op = "upload_complete" /\ resp'.uploadId = uploadId
  \/ /\ Cardinality(inflight') > Cardinality(inflight)
     /\ \E r \in inflight' \ inflight :
          r.op \in {"complete", "s3complete"} /\ r.uploadId = uploadId

\* C5: when parts 1..N of an upload in progress have all been put, in whatever
\* order and however often, complete(uploadId, N) succeeds (unless it reports
\* the destination as taken, which the local backend does with 409) and the
\* destination then holds the bytes last sent for part 1, part 2, ..., part N
C5_Counterexample ==
  [][ (/\ Answered
       /\ resp'.op = "upload_complete"
       /\ InProgress(resp'.uploadId)
       /\ DOMAIN sent[resp'.uploadId].parts = 1..resp'.total)
        => /\ resp'.code \in (IF mode = "local" THEN {200, 409} ELSE {200})
           /\ resp'.code = 200
                => DestItem(fs', s3') =
                     << (IF mode = "local" THEN FileNode(ConcatParts(sent[resp'.uploadId].parts, 1, resp'.total))
                         ELSE S3Object(ConcatParts(sent[resp'.uploadId].parts, 1, resp'.total))) >> ]_vars

\* C6: complete(uploadId, totalParts) of an upload in progress of which fewer
\* than totalParts parts have been put fails with an error attributed to the
\* caller (a 4xx answer), on both backends
C6_Counterexample ==
  [][ (/\ Answered
       /\ resp'.op = "upload_complete"
       /\ InProgress(resp'.uploadId)
       /\ Cardinality(DOMAIN sent[resp'.uploadId].parts) < resp'.total)
        => resp'.code \in 400..499 ]_vars

\* C7: complete of an upload started with overwrite = false that finds an
\* item at the destination fails with Conflict (409) and leaves the store as it
\* was: the local handler when it takes the request in, the S3 handler when
\* CompleteMultipartUpload would publish
C7_Counterexample ==
  [][ \A uploadId \in DOMAIN sent :
        (/\ InProgress(uploadId)
         /\ ~sent[uploadId].overwrite
         /\ DestItem(fs, s3) # <<>>)
          => /\ (mode = "local" /\ CompleteReceived(uploadId))
                  => (inflight' = inflight /\ resp'.code = 409 /\ fs' = fs)
             /\ (/\ mode = "s3"
                 /\ Answered
                 /\ resp' # resp
                 /\ resp'.op = "upload_complete"
                 /\ resp'.uploadId = uploadId)
                  => (resp'.code = 409 /\ s3' = s3) ]_vars

\* C8: the destination changes only in the step in which a complete answers
\* ok, and what it holds from then on is the whole content of the upload: a
\* reader never finds an empty or half-assembled item
C8_Counterexample ==
  [][ /\ DestItem(fs', s3') # DestItem(fs, s3)
        => (Answered /\ resp'.op = "upload_complete" /\ resp'.code = 200)
      /\ (Answered /\ resp' # resp /\ resp'.op = "upload_complete" /\ resp'.code = 200)
        => /\ DestItem(fs', s3') # <<>>
           /\ DestItem(fs', s3')[1].c \in WholeContents(resp'.total) ]_vars

\* C9: status of an upload in progress succeeds and returns exactly the part
\* numbers whose putPart has been answered ok
C9_Counterexample ==
  [][ (/\ Answered
       /\ resp' # resp
       /\ resp'.op = "upload_status"
       /\ InProgress(resp'.uploadId))
        => /\ resp'.code = 200
           /\ resp'.uploadedParts = DOMAIN sent[resp'.uploadId].parts ]_vars

\* C10: putPart with an upload id that init never gave out, or whose upload
\* is complete, is refused at once with NotFound (404) and writes nothing
C10_Counterexample ==
  [][ /\ (/\ Answered
          /\ resp'.op = "upload_chunk"
          /\ ~InProgress(resp'.uploadId))
           => (resp'.code = 404 /\ fs' = fs /\ s3' = s3 /\ mpu' = mpu)
      /\ \A r \in inflight' \ inflight :
           (r.op = "chunk" /\ ~InProgress(r.uploadId)) => FALSE ]_vars

\* C11: status for an upload id without upload state (init never gave it
\* out, or its upload is complete) succeeds with an empty set of parts
C11_Counterexample ==
  [][ (/\ Answered
       /\ resp' # resp
       /\ resp'.op = "upload_status"
       /\ resp'.uploadId \in GivenIds
       /\ ~InProgress(resp'.uploadId))
        => (resp'.code = 200 /\ resp'.uploadedParts = {}) ]_vars

\* status has just reported part n of an upload in progress, and no put of
\* part n has been answered: a put of it is under way, or was cut off
ReportedUnfinished(n) ==
  /\ resp.op = "upload_status" /\ resp.code = 200
  /\ InProgress(resp.uploadId)
  /\ n \in resp.uploadedParts /\ n \notin DOMAIN sent[resp.uploadId].parts

\* a complete has just answered ok, no put of its part n has been answered,
\* and the destination holds less than the whole chunks of the parts
PublishedTruncated(n) ==
  /\ resp.op = "upload_complete" /\ resp.code = 200
  /\ n <= resp.total /\ n \notin DOMAIN sent[resp.uploadId].parts
  /\ DestItem(fs, s3) # <<>>
  /\ DestItem(fs, s3)[1].c \notin WholeContents(resp.total)

\* C27: when status has reported a part whose put is still under way or was
\* cut off, the next step is no complete that answers ok with the cut-off
\* bytes of that part in the item it publishes
C27_Counterexample ==
  [][ \A n \in 1..MaxConcParts :
        ReportedUnfinished(n) => ~PublishedTruncated(n)' ]_vars

\* the parts of the upload that the server holds
PartsHeld(f, m, uploadId) ==
  IF mode = "local"
    THEN { <<q, f[q]>> : q \in { q \in DOMAIN f : IsPrefix(pathJoin(UPLOAD_TMP_DIR, uploadId), q) } }
    ELSE IF uploadId \in DOMAIN m THEN { m[uploadId] } ELSE {}

\* C26: when a complete request is answered with a failure, the destination
\* is as it was when the request came in (no file cut short or replaced, no
\* new file), and the parts of the upload are as they were
C26_Counterexample ==
  [][ (Answered /\ resp'.op = "upload_complete" /\ resp'.code >= 400)
        => /\ inflight' = inflight => DestItem(fs', s3') = DestItem(fs, s3)
           /\ \A r \in inflight \ inflight' : DestItem(fs', s3') = r.before
           /\ PartsHeld(fs', mpu', resp'.uploadId) = PartsHeld(fs, mpu, resp'.uploadId) ]_vars

(***************************************************************************)
(* The chunk handler step by step.  It awaits fs.stat of the upload        *)
(* directory and then Bun.write of the part file; Bun.write makes the      *)
(* directories of its path that are missing (createPath, on by default).   *)
(* The other requests are served between the two.                          *)
(***************************************************************************)
\* POST /api/upload/chunk (local) up to `await fs.stat(dir)` when it passes
UploadChunkStat(cap, uploadId, partNumber, data) ==
  /\ Room(cap)
  /\ mode = "local" /\ canWrite(Session.role) /\ partNumber > 0
  /\ pathExists(fs, pathJoin(UPLOAD_TMP_DIR, uploadId))
  /\ inflight' = inflight \cup
       { [rid |-> FreeSlot(cap), op |-> "chunkstat", uploadId |-> uploadId,
          part |-> partNumber, data |-> data, dir |-> pathJoin(UPLOAD_TMP_DIR, uploadId)] }
  /\ UNCHANGED <<mode, fs, s3, mpu, resp, nextId, sent, steps, input, role, shares, snap>>

\* Bun.write(chunkPath, chunk) and the answer
BunWrite(r) ==
  /\ r.op = "chunkstat"
  /\ \E made \in { MkdirP(fs, r.dir, 1) } :
     \E w \in { IF made.ok THEN WriteThrough(made.fs, Append(r.dir, PartFile(r.part)),
                                             FileNode(r.data))
                 ELSE made } :
       /\ fs' = w.fs
       /\ sent' = IF w.ok THEN NoteSent(r.uploadId, r.part, r.data) ELSE sent
       /\ Respond([op |-> "upload_chunk", uploadId |-> r.uploadId, part |-> r.part,
                   code |-> IF w.ok THEN 200 ELSE 500])
  /\ inflight' = inflight \ {r}
  /\ UNCHANGED <<mode, s3, mpu, nextId, steps, input, role, shares, snap>>

NextUploadAfter ==
  \/ NextUploadConc
  \/ \E uploadId \in GivenIds, partNumber \in 1..MaxConcParts :
       UploadChunkStat(MaxInflight, uploadId, partNumber, <<2, 3>>)
  \/ \E r \in inflight : BunWrite(r)

SpecUploadAfter == InitUpload /\ [][NextUploadAfter]_vars

\* a complete of the upload has answered ok
Completed(uploadId) == uploadId \in DOMAIN sent /\ sent[uploadId].done

\* C32: once a complete of an upload has answered ok the server holds no
\* part, directory or multipart upload of it, then and ever after; a status,
\* chunk or complete request for it that comes in afterwards is refused at
\* once and leaves the destination as it is
C32_Counterexample ==
  [][ \A uploadId \in GivenIds :
        /\ Completed(uploadId)' => PartsHeld(fs', mpu', uploadId) = {}
        /\ Completed(uploadId)
             => /\ \A r \in inflight' \ inflight : r.uploadId # uploadId
                /\ (/\ inflight' = inflight /\ resp' # resp
                    /\ resp'.op \in {"upload_status", "upload_chunk", "upload_complete"}
                    /\ resp'.uploadId = uploadId)
                     => (resp'.code >= 400 /\ DestItem(fs', s3') = DestItem(fs, s3)) ]_vars

(***************************************************************************)
(* Trash and restore.  The root holds the directory a with the file a/a,   *)
(* the file f.x and the directory .trashcan (".Tc") with the file          *)
(* .trashcan/a; nothing has been trashed yet.  Mkdir and upload requests   *)
(* may come between a trash and its restore.                               *)
(***************************************************************************)
TRASHCAN == TRASH \o <<"c">>

TrashTreeFs ==
  FileFs @@ (Append(ROOT_REAL, TRASHCAN) :> DirNode)
  @@ (ROOT_REAL \o <<TRASHCAN, <<"a">> >> :> FileNode(<<4>>))

TrashBucket == FileBucket @@ (S3_ROOT \o TRASHCAN \o <<SEP, "a">> :> S3Object(<<4>>))

TrashOpPaths ==
  { <<SEP>>, <<SEP, "a">>, <<SEP, "a", SEP, "a">>, <<SEP>> \o FILE_X,
    <<SEP>> \o TRASHCAN, <<SEP>> \o TRASHCAN \o <<SEP, "a">> }

TrashOpNames == { <<"a">>, FILE_X }

\* most requests one behaviour of the trash specification serves
MaxTrashSteps == 4

Within(cap) == steps < cap /\ steps' = steps + 1

InitTrash ==
  /\ mode \in {"local", "s3"}
  /\ fs = IF mode = "local" THEN TrashTreeFs ELSE BaseFs
  /\ s3 = IF mode = "s3" THEN TrashBucket ELSE <<>>
  /\ mpu = <<>>
  /\ inflight = {}
  /\ resp = NoResp
  /\ nextId = 0
  /\ sent = <<>>
  /\ steps = 0
  /\ input = <<>>
  /\ role = "read-write"
  /\ shares = <<>>
  /\ snap = <<>>

NextTrash ==
  \/ \E path \in TrashOpPaths : Within(MaxTrashSteps) /\ TrashReq(path)
  \/ \E n \in 1..MaxTrashSteps : Within(MaxTrashSteps) /\ RestoreReq(Uuid(n))
  \/ \E path \in TrashOpPaths, name \in TrashOpNames :
       Within(MaxTrashSteps) /\ MkdirReq(path, name)
  \/ \E path \in TrashOpPaths, name \in TrashOpNames :
       Within(MaxTrashSteps) /\ UploadReq(path, name, FALSE, <<5>>)

SpecTrash == InitTrash /\ [][NextTrash]_vars

\* the live tree: every entry of the root that is not the trash or in it
Live(f, b) ==
  IF mode = "local"
    THEN { <<p, f[p]>> : p \in { q \in DOMAIN f : /\ IsPrefix(ROOT_REAL, q)
                                                  /\ ~IsPrefix(Append(ROOT_REAL, TRASH), q) } }
    ELSE { <<k, b[k]>> : k \in { q \in DOMAIN b : /\ StartsWith(q, S3_ROOT)
                                                  /\ ~StartsWith(q, S3_ROOT \o TRASH \o <<SEP>>) } }

\* the trash records
TrashRecords(f, b) ==
  IF mode = "local"
    THEN { f[p].j : p \in { q \in DOMAIN f : /\ Len(q) > 0
                                             /\ Parent(q) = ROOT_REAL \o <<TRASH, META>>
                                             /\ f[q].t = "file" } }
    ELSE { b[k].j : k \in { q \in DOMAIN b : StartsWith(q, S3_ROOT \o TRASH \o <<SEP>> \o META \o <<SEP>>) } }

\* C12: a restore of the record a trash has just returned, with no request
\* in between, succeeds and leaves the live tree (entries and bytes) and the
\* trash records as they were before the trash
C12_Counterexample ==
  [][ (/\ steps' = steps + 1
       /\ resp.op = "trash" /\ resp.code = 200
       /\ resp'.op = "restore" /\ resp'.id = resp.item.id)
        => /\ resp'.code = 200
           /\ Live(fs', s3') = Live(snap.fs, snap.s3)
           /\ TrashRecords(fs', s3') = TrashRecords(snap.fs, snap.s3) ]_vars

\* the trash: the records and the trashed objects (the directories .trash and
\* .trash/.meta themselves, which every trash request makes sure of, left out)
TrashStore(f, b) ==
  IF mode = "local"
    THEN { <<p, f[p]>> : p \in { q \in DOMAIN f : /\ IsPrefix(Append(ROOT_REAL, TRASH), q)
                                                  /\ Len(q) > Len(ROOT_REAL) + 1
                                                  /\ q # ROOT_REAL \o <<TRASH, META>> } }
    ELSE { <<k, b[k]>> : k \in { q \in DOMAIN b : StartsWith(q, S3_ROOT \o TRASH \o <<SEP>>) } }

\* the records with the given id
RecordsOf(f, b, id) == { r \in TrashRecords(f, b) : r.id = id }

\* the live tree has an item, or a directory, at the virtual path v
LiveItem(f, b, v) ==
  IF mode = "local" THEN ROOT_REAL \o SegsOf(v) \in DOMAIN f
  ELSE v = <<SEP>> \/ \E k \in DOMAIN b : k = S3_ROOT \o Tail(v) \/ StartsWith(k, S3_ROOT \o Tail(v) \o <<SEP>>)

LiveDir(f, b, v) ==
  IF mode = "local" THEN LiveItem(f, b, v) /\ f[ROOT_REAL \o SegsOf(v)].t = "dir"
  ELSE v = <<SEP>> \/ \E k \in DOMAIN b : StartsWith(k, S3_ROOT \o Tail(v) \o <<SEP>>)

\* C13: restore(id) is refused with NotFound (404) when the trash has no
\* record with that id, and with InvalidTarget or Conflict (409, told apart by
\* their messages) when the parent directory of the record's original path is
\* gone or an item lies at the original path; a restore that is refused
\* leaves the trash and the live tree as they were.  Records of paths that
\* begin with /.trash, which restore refuses whatever the tree holds (C12),
\* are left aside.
C13_Counterexample ==
  [][ (steps' = steps + 1 /\ resp'.op = "restore")
        => /\ RecordsOf(fs, s3, resp'.id) = {} => resp'.code = 404
           /\ \A r \in RecordsOf(fs, s3, resp'.id) :
                (/\ ~StartsWith(r.originalPath, <<SEP>> \o TRASH)
                 /\ (\/ ~LiveDir(fs, s3, posixDirname(r.originalPath))
                     \/ LiveItem(fs, s3, r.originalPath))) => resp'.code = 409
           /\ resp'.code >= 400
                => /\ Live(fs', s3') = Live(fs, s3)
                   /\ TrashStore(fs', s3') = TrashStore(fs, s3) ]_vars

\* where the virtual path v lies in the store: a real path, or a key
StorePath(v) == IF mode = "local" THEN ROOT_REAL \o SegsOf(v) ELSE S3_ROOT \o Tail(v)

\* the store path q is at or below the store path at
AtOrBelow(at, q) ==
  IF mode = "local" THEN IsPrefix(at, q) ELSE q = at \/ StartsWith(q, at \o <<SEP>>)

\* the names of a key: the key and the directories it lies in
NamesOfKey(k) ==
  { SubSeq(k, 1, i) : i \in { n \in (Len(S3_ROOT) + 1)..Len(k) :
                                k[n] # SEP /\ (n = Len(k) \/ k[n + 1] = SEP) } }

\* the paths a listing of the live tree can show
LiveNames(f, b) ==
  IF mode = "local" THEN { e[1] : e \in Live(f, b) }
  ELSE UNION { NamesOfKey(e[1]) : e \in Live(f, b) }

\* what lies at and below a store path, by its path relative to it
Below(f, b, at) ==
  IF mode = "local"
    THEN { <<SubSeq(q, Len(at) + 1, Len(q)), f[q]>> : q \in { x \in DOMAIN f : IsPrefix(at, x) } }
    ELSE { <<SubSeq(q, Len(at) + 1, Len(q)), b[q]>> : q \in { x \in DOMAIN b : AtOrBelow(at, x) } }

TypeAt(f, b, at) ==
  IF mode = "local" THEN (IF f[at].t = "dir" THEN "dir" ELSE "file")
  ELSE IF at \in DOMAIN b THEN "file" ELSE "dir"

SizeAt(f, b, at) ==
  IF mode = "local" THEN (IF f[at].t = "file" THEN Len(f[at].c) ELSE 0)
  ELSE IF at \in DOMAIN b THEN Len(b[at].c) ELSE 0

\* C14: when trash(p) has answered ok, p and what lay below it are no longer
\* in the live tree and nothing else of the live tree has changed; the trash
\* holds one record more, with p as its original path and the type and size
\* p had, and no other record has changed; what lay at p lies unchanged
\* under /.trash/<trashName>
C14_Counterexample ==
  [][ (steps' = steps + 1 /\ resp'.op = "trash" /\ resp'.code = 200)
        => \E at \in { StorePath(normalizeRequestPath(resp'.path)) } :
             /\ LiveNames(fs', s3') = { q \in LiveNames(fs, s3) : ~AtOrBelow(at, q) }
             /\ Live(fs', s3') = { e \in Live(fs, s3) : ~AtOrBelow(at, e[1]) }
             /\ \E r \in TrashRecords(fs', s3') :
                  /\ r \notin TrashRecords(fs, s3)
                  /\ TrashRecords(fs', s3') = TrashRecords(fs, s3) \cup {r}
                  /\ r.originalPath = normalizeRequestPath(resp'.path)
                  /\ r.type = TypeAt(fs, s3, at)
                  /\ r.size = SizeAt(fs, s3, at)
                  /\ Below(fs', s3', StorePath(<<SEP>> \o TRASH \o <<SEP>> \o r.trashName))
                       = Below(fs, s3, at)
             /\ TrashStore(fs, s3) \subseteq TrashStore(fs', s3') ]_vars

(***************************************************************************)
(* Move and copy, one request after the other.  The root holds the         *)
(* directory a with the file a/a and the file f.x.                         *)
(***************************************************************************)
MovePaths ==
  { <<SEP>>, <<SEP, "a">>, <<SEP, "a", SEP, "a">>, <<SEP, "a", SEP, "n">>, <<SEP, "n">>,
    <<SEP>> \o FILE_X }

\* most requests one behaviour of the move specification serves
MaxMoveSteps == 2

InitMove ==
  /\ mode \in {"local", "s3"}
  /\ fs = IF mode = "local" THEN FileFs ELSE BaseFs
  /\ s3 = IF mode = "s3" THEN FileBucket ELSE <<>>
  /\ mpu = <<>>
  /\ inflight = {}
  /\ resp = NoResp
  /\ nextId = 0
  /\ sent = <<>>
  /\ steps = 0
  /\ input = <<>>
  /\ role = "read-write"
  /\ shares = <<>>
  /\ snap = <<>>

NextMove ==
  \/ \E from \in MovePaths, to \in MovePaths : Within(MaxMoveSteps) /\ MoveReq(from, to)
  \/ \E from \in MovePaths, to \in MovePaths : Within(MaxMoveSteps) /\ CopyReq(from, to)

SpecMove == InitMove /\ [][NextMove]_vars

\* the virtual path to lies below the virtual path from
Nested(from, to) ==
  IF from = <<SEP>> THEN to # <<SEP>> ELSE StartsWith(to, from \o <<SEP>>)

\* C15: a move or copy of a directory to a path below itself is refused, with
\* InvalidOperation (400) when nothing lies at that path yet, and leaves the
\* store as it was; the virtual root is such a directory too
C15_Counterexample ==
  [][ (/\ steps' = steps + 1
       /\ resp'.op \in {"move", "copy"}
       /\ LiveDir(fs, s3, normalizeRequestPath(resp'.from))
       /\ Nested(normalizeRequestPath(resp'.from), normalizeRequestPath(resp'.to)))
        => /\ resp'.code >= 400
           /\ ~LiveItem(fs, s3, normalizeRequestPath(resp'.to)) => resp'.code = 400
           /\ fs' = fs /\ s3' = s3 ]_vars

(***************************************************************************)
(* Move, copy and restore with their requests interleaved.  Each handler   *)
(* awaits its checks (the last one "is anything at the destination?") and  *)
(* then awaits the call that writes; another request can run between the   *)
(* two.  The first half yields the answer of a failed check, or what the   *)
(* handler holds in its locals when it goes on to write.                   *)
(***************************************************************************)
Refused(out) == [pass |-> FALSE, out |-> out]
Passed(req, src, dst, more) == [pass |-> TRUE, req |-> req, src |-> src, dst |-> dst] @@ more

\* POST /api/move (local) up to `await pathExists(dest.fullPath)` and the
\* test for a folder moved into itself
localMoveChecks(f, ss, from, to) ==
  LET req == [op |-> "move", from |-> from, to |-> to] IN
  IF ~canWrite(ss.role) THEN Refused(Reply(f, req @@ [code |-> 403])) ELSE
  Bind(resolveSafePath(f, from, ss.rootReal), LAMBDA fromResolved :
  IF ~fromResolved.ok THEN Refused(Reply(f, req @@ [code |-> 404]))
  ELSE IF fromResolved.normalized = <<SEP>> THEN Refused(Reply(f, req @@ [code |-> 400])) ELSE
  Bind(resolveDestinationPath(f, to, ss.rootReal), LAMBDA dest :
  IF ~dest.ok THEN Refused(Reply(f, req @@ [code |-> IF dest.threw THEN 500 ELSE 400]))
  ELSE IF ~isWithinRoot(dest.fullPath, ss.rootReal) THEN Refused(Reply(f, req @@ [code |-> 400]))
  ELSE IF dest.fullPath = fromResolved.fullPath THEN Refused(Reply(f, req @@ [code |-> 400]))
  ELSE IF pathExists(f, dest.fullPath) THEN Refused(Reply(f, req @@ [code |-> 409]))
  ELSE IF StartsWith(Str(dest.fullPath), Str(fromResolved.fullPath) \o <<SEP>>)
    THEN Refused(Reply(f, req @@ [code |-> 400]))
  ELSE Passed(req, fromResolved.fullPath, dest.fullPath, <<>>)))

\* POST /api/copy (local) up to `await pathExists(dest.fullPath)` and the
\* test for a folder copied into itself
localCopyChecks(f, ss, from, to) ==
  LET req == [op |-> "copy", from |-> from, to |-> to] IN
  IF ~canWrite(ss.role) THEN Refused(Reply(f, req @@ [code |-> 403])) ELSE
  Bind(resolveSafePath(f, from, ss.rootReal), LAMBDA fromResolved :
  IF ~fromResolved.ok THEN Refused(Reply(f, req @@ [code |-> 404])) ELSE
  Bind(resolveDestinationPath(f, to, ss.rootReal), LAMBDA dest :
  IF ~dest.ok THEN Refused(Reply(f, req @@ [code |-> IF dest.threw THEN 500 ELSE 400]))
  ELSE IF pathExists(f, dest.fullPath) THEN Refused(Reply(f, req @@ [code |-> 409]))
  ELSE IF StartsWith(Str(dest.fullPath), Str(fromResolved.fullPath) \o <<SEP>>)
    THEN Refused(Reply(f, req @@ [code |-> 400]))
  ELSE Passed(req, fromResolved.fullPath, dest.fullPath, <<>>)))

\* POST /api/trash/restore (local) up to `await pathExists(trashPath)`; the
\* trash directories are made first, so the tree is part of what it yields
localRestoreChecks(f, ss, id) ==
  LET req == [op |-> "restore", id |-> id] IN
  IF ~canWrite(ss.role) THEN Refused(Reply(f, req @@ [code |-> 403]))
  ELSE IF id = <<>> THEN Refused(Reply(f, req @@ [code |-> 400])) ELSE
  Bind(getTrashPaths(ss.rootReal), LAMBDA tp :
  Bind(ensureTrashDirs(f, tp.metaDir), LAMBDA dirs :
  IF ~dirs.ok THEN Refused(Reply(f, req @@ [code |-> 500])) ELSE
  Bind(readTrashRecord(dirs.fs, tp.metaDir, id), LAMBDA record :
  IF record.k = "none" THEN Refused(Reply(dirs.fs, req @@ [code |-> 404])) ELSE
  Bind(normalizeRequestPath(record.originalPath), LAMBDA normalized :
  IF normalized = <<SEP>> \/ StartsWith(normalized, <<SEP>> \o TRASH)
    THEN Refused(Reply(dirs.fs, req @@ [code |-> 400])) ELSE
  Bind(resolveSafePath(dirs.fs, posixDirname(normalized), ss.rootReal), LAMBDA parent :
  IF ~parent.ok THEN Refused(Reply(dirs.fs, req @@ [code |-> 409])) ELSE
  Bind(pathJoin(parent.fullPath, posixBasename(normalized)), LAMBDA destPath :
  IF pathExists(dirs.fs, destPath) THEN Refused(Reply(dirs.fs, req @@ [code |-> 409])) ELSE
  Bind(pathJoin(tp.trashDir, record.trashName), LAMBDA trashPath :
  IF ~pathExists(dirs.fs, trashPath) THEN Refused(Reply(dirs.fs, req @@ [code |-> 404]))
  ELSE Passed(req @@ [restored |-> normalized], trashPath, destPath,
              [fs |-> dirs.fs, metaFile |-> pathJoin(tp.metaDir, record.id \o <<"J">>)]))))))))

\* the rest of the three local handlers: fs.rename, copyPath, or fs.rename
\* and fs.unlink of the record, on the tree as it is by then
localWrites(f, p) ==
  IF p.req.op = "move"
    THEN Bind(RenameAt(f, p.src, p.dst), LAMBDA m :
         Reply(m.fs, p.req @@ [code |-> IF m.ok THEN 200 ELSE 500]))
  ELSE IF p.req.op = "copy"
    THEN Bind(copyPath(f, p.src, p.dst), LAMBDA m :
         Reply(m.fs, p.req @@ [code |-> IF m.ok THEN 200 ELSE 500]))
  ELSE Bind(RenameAt(f, p.src, p.dst), LAMBDA moved :
       IF ~moved.ok THEN Reply(f, [op |-> "restore", id |-> p.req.id, code |-> 500]) ELSE
       Bind(UnlinkAt(moved.fs, p.metaFile), LAMBDA unlinked :
       IF ~unlinked.ok THEN Reply(moved.fs, [op |-> "restore", id |-> p.req.id, code |-> 500])
       ELSE Reply(unlinked.fs, p.req @@ [code |-> 200])))

\* handleS3Move up to the test for a folder moved into itself
handleS3MoveChecks(b, ss, from, to) ==
  LET req == [op |-> "move", from |-> from, to |-> to] IN
  IF ~canWrite(ss.role) THEN Refused(ReplyS3(b, req @@ [code |-> 403])) ELSE
  Bind(resolveSafeS3Path(from, ss.rootReal), LAMBDA fromResolved :
  IF ~fromResolved.ok THEN Refused(ReplyS3(b, req @@ [code |-> 404]))
  ELSE IF fromResolved.normalized = <<SEP>> THEN Refused(ReplyS3(b, req @@ [code |-> 400])) ELSE
  Bind(resolveDestinationPathS3(to), LAMBDA dest :
  IF ~dest.ok THEN Refused(ReplyS3(b, req @@ [code |-> 400]))
  ELSE IF dest.normalized = fromResolved.normalized THEN Refused(ReplyS3(b, req @@ [code |-> 400]))
  ELSE IF getS3PathInfo(b, ss.rootReal, posixDirname(dest.normalized)).type # "dir"
    THEN Refused(ReplyS3(b, req @@ [code |-> 400]))
  ELSE IF s3PathExists(b, ss.rootReal, dest.normalized)
    THEN Refused(ReplyS3(b, req @@ [code |-> 409]))
  ELSE
  Bind(getS3PathInfo(b, ss.rootReal, fromResolved.normalized), LAMBDA info :
  IF info.type = "none" THEN Refused(ReplyS3(b, req @@ [code |-> 404]))
  ELSE IF info.type = "dir" /\ StartsWith(dest.normalized, fromResolved.normalized \o <<SEP>>)
    THEN Refused(ReplyS3(b, req @@ [code |-> 400]))
  ELSE Passed(req, fromResolved.normalized, dest.normalized, [type |-> info.type]))))

\* handleS3Copy up to the test for a folder copied into itself
handleS3CopyChecks(b, ss, from, to) ==
  LET req == [op |-> "copy", from |-> from, to |-> to] IN
  IF ~canWrite(ss.role) THEN Refused(ReplyS3(b, req @@ [code |-> 403])) ELSE
  Bind(resolveSafeS3Path(from, ss.rootReal), LAMBDA fromResolved :
  IF ~fromResolved.ok THEN Refused(ReplyS3(b, req @@ [code |-> 404])) ELSE
  Bind(resolveDestinationPathS3(to), LAMBDA dest :
  IF ~dest.ok THEN Refused(ReplyS3(b, req @@ [code |-> 400]))
  ELSE IF getS3PathInfo(b, ss.rootReal, posixDirname(dest.normalized)).type # "dir"
    THEN Refused(ReplyS3(b, req @@ [code |-> 400]))
  ELSE IF s3PathExists(b, ss.rootReal, dest.normalized)
    THEN Refused(ReplyS3(b, req @@ [code |-> 409]))
  ELSE
  Bind(getS3PathInfo(b, ss.rootReal, fromResolved.normalized), LAMBDA info :
  IF info.type = "none" THEN Refused(ReplyS3(b, req @@ [code |-> 404]))
  ELSE IF info.type = "dir" /\ StartsWith(dest.normalized, fromResolved.normalized \o <<SEP>>)
    THEN Refused(ReplyS3(b, req @@ [code |-> 400]))
  ELSE Passed(req, fromResolved.normalized, dest.normalized, [type |-> info.type]))))

\* handleS3TrashRestore up to `await s3PathExists(rootPrefix, normalized)`
handleS3TrashRestoreChecks(b, ss, id) ==
  LET req == [op |-> "restore", id |-> id] IN
  IF ~canWrite(ss.role) THEN Refused(ReplyS3(b, req @@ [code |-> 403]))
  ELSE IF id = <<>> THEN Refused(ReplyS3(b, req @@ [code |-> 400])) ELSE
  Bind(getTrashPrefixesS3(ss.rootReal).metaPrefix, LAMBDA metaPrefix :
  Bind(readS3TrashRecord(b, metaPrefix, id), LAMBDA record :
  IF record.k = "none" THEN Refused(ReplyS3(b, req @@ [code |-> 404])) ELSE
  Bind(normalizeRequestPath(record.originalPath), LAMBDA normalized :
  IF normalized = <<SEP>> \/ StartsWith(normalized, <<SEP>> \o TRASH)
    THEN Refused(ReplyS3(b, req @@ [code |-> 400]))
  ELSE IF getS3PathInfo(b, ss.rootReal, posixDirname(normalized)).type = "none"
    THEN Refused(ReplyS3(b, req @@ [code |-> 409]))
  ELSE IF s3PathExists(b, ss.rootReal, normalized)
    THEN Refused(ReplyS3(b, req @@ [code |-> 409]))
  ELSE Passed(req @@ [restored |-> normalized],
              <<SEP>> \o TRASH \o <<SEP>> \o record.trashName, normalized,
              [type |-> record.type, metaFile |-> metaPrefix \o record.id \o <<"J">>]))))

\* the rest of the three S3 handlers: moveS3Path, copyS3Path, or moveS3Path
\* and the delete of the record, on the bucket as it is by then
s3Writes(b, ss, p) ==
  IF p.req.op = "move"
    THEN Bind(moveS3Path(b, ss.rootReal, p.src, p.dst, p.type), LAMBDA moved :
         ReplyS3(moved.s3, p.req @@ [code |-> IF moved.ok THEN 200 ELSE 500]))
  ELSE IF p.req.op = "copy"
    THEN Bind(copyS3Path(b, ss.rootReal, p.src, p.dst, p.type), LAMBDA copied :
         ReplyS3(copied.s3, p.req @@ [code |-> IF copied.ok THEN 200 ELSE 500]))
  ELSE Bind(moveS3Path(b, ss.rootReal, p.src, p.dst, p.type), LAMBDA moved :
       IF ~moved.ok THEN ReplyS3(b, [op |-> "restore", id |-> p.req.id, code |-> 500])
       ELSE ReplyS3(s3DeleteObject(moved.s3, p.metaFile), p.req @@ [code |-> 200]))

\* the first half of a request: a failed check is answered at once, a passed
\* one leaves the handler waiting with its locals
Checked(localChecks, s3Checks) ==
  \E checks \in { IF mode = "local" THEN localChecks ELSE s3Checks } :
  IF ~checks.pass
    THEN /\ resp' = checks.out.resp
         /\ fs' = IF mode = "local" THEN checks.out.fs ELSE fs
         /\ s3' = IF mode = "s3" THEN checks.out.s3 ELSE s3
         /\ inflight' = inflight
    ELSE /\ resp' = resp
         /\ fs' = IF "fs" \in DOMAIN checks THEN checks.fs ELSE fs
         /\ s3' = s3
         /\ inflight' = inflight \cup { checks @@ [rid |-> steps] }

MoveChecks(from, to) ==
  /\ Checked(localMoveChecks(fs, Session, from, to), handleS3MoveChecks(s3, Session, from, to))
  /\ UNCHANGED <<mode, mpu, nextId, sent, input, role, shares, snap>>

CopyChecks(from, to) ==
  /\ Checked(localCopyChecks(fs, Session, from, to), handleS3CopyChecks(s3, Session, from, to))
  /\ UNCHANGED <<mode, mpu, nextId, sent, input, role, shares, snap>>

RestoreChecks(id) ==
  /\ Checked(localRestoreChecks(fs, Session, id), handleS3TrashRestoreChecks(s3, Session, id))
  /\ UNCHANGED <<mode, mpu, nextId, sent, input, role, shares, snap>>

\* the second half of a waiting request
Writes(p) ==
  /\ Serve(localWrites(fs, p), s3Writes(s3, Session, p))
  /\ inflight' = inflight \ {p}
  /\ UNCHANGED <<mode, mpu, nextId, sent, input, role, shares, snap>>

(***************************************************************************)
(* The stores the interleaved requests start from, each made by requests   *)
(* served one after the other: the file f.x trashed, uploaded again and    *)
(* trashed again (two trashed items of one original path), and after that  *)
(* possibly uploaded a third time.                                         *)
(***************************************************************************)
Writer(rootReal) == [user |-> "u", role |-> "read-write", rootReal |-> rootReal]

TrashedFs(f, id) == localTrash(f, Writer(ROOT_REAL), <<SEP>> \o FILE_X, Uuid(id), id).fs
UploadedFs(f, bytes) == localUpload(f, Writer(ROOT_REAL), <<SEP>>, FILE_X, FALSE, bytes).fs
TrashedTwiceFs == TrashedFs(UploadedFs(TrashedFs(FileFs, 1), <<5>>), 2)
RaceFsSet == { TrashedTwiceFs, UploadedFs(TrashedTwiceFs, <<6>>) }

TrashedBucket(b, id) == handleS3Trash(b, Writer(S3_ROOT), <<SEP>> \o FILE_X, Uuid(id), id).s3
UploadedBucket(b, bytes) == handleS3Upload(b, Writer(S3_ROOT), <<SEP>>, FILE_X, FALSE, bytes).s3
TrashedTwiceBucket == TrashedBucket(UploadedBucket(TrashedBucket(FileBucket, 1), <<5>>), 2)
RaceBucketSet == { TrashedTwiceBucket, UploadedBucket(TrashedTwiceBucket, <<6>>) }

RaceFrom == { <<SEP, "a">>, <<SEP, "a", SEP, "a">>, <<SEP>> \o FILE_X }
RaceTo == { <<SEP, "n">>, <<SEP>> \o FILE_X }

\* most requests that wait between their checks and their write
MaxRacing == 2
\* most steps one behaviour of the interleaved specification takes
MaxRaceSteps == 4

InitRace ==
  /\ mode \in {"local", "s3"}
  /\ fs \in IF mode = "local" THEN RaceFsSet ELSE { BaseFs }
  /\ s3 \in IF mode = "s3" THEN RaceBucketSet ELSE { <<>> }
  /\ mpu = <<>>
  /\ inflight = {}
  /\ resp = NoResp
  /\ nextId = 2
  /\ sent = <<>>
  /\ steps = 0
  /\ input = <<>>
  /\ role = "read-write"
  /\ shares = <<>>
  /\ snap = <<>>

NextRace ==
  \/ \E from \in RaceFrom, to \in RaceTo :
       Within(MaxRaceSteps) /\ Room(MaxRacing) /\ MoveChecks(from, to)
  \/ \E from \in RaceFrom, to \in RaceTo :
       Within(MaxRaceSteps) /\ Room(MaxRacing) /\ CopyChecks(from, to)
  \/ \E n \in 1..2 : Within(MaxRaceSteps) /\ Room(MaxRacing) /\ RestoreChecks(Uuid(n))
  \/ \E p \in inflight : Within(MaxRaceSteps) /\ Writes(p)

SpecRace == InitRace /\ [][NextRace]_vars

\* the virtual path a move, copy or restore has answered for
TargetOf(r) == IF r.op = "restore" THEN r.restored ELSE normalizeRequestPath(r.to)

\* C16: a move or copy asked for while an item lies at its destination is
\* refused, and no move, copy or restore answered ok has written where an
\* item lay just before it wrote, however the requests interleave
C16_Counterexample ==
  [][ (/\ steps' = steps + 1
       /\ Cardinality(inflight') <= Cardinality(inflight)
       /\ resp'.op \in {"move", "copy", "restore"}
       /\ resp'.code = 200)
        => ~LiveItem(fs, s3, TargetOf(resp')) ]_vars

(***************************************************************************)
(* The share registry.  SHARE_MAP is a Map from token to record; the model *)
(* keeps its records in insertion order, which is the order the Map is     *)
(* iterated in.  A record's rootReal is <<>> for the empty string.         *)
(***************************************************************************)
ShareRecord(token, p, rootReal, createdAt) ==
  [token |-> token, path |-> p, rootReal |-> rootReal, createdAt |-> createdAt]

\* null
NoShare == [token |-> <<>>]

\* SHARE_MAP.set: a known token keeps its place
MapSet(sh, record) ==
  IF \E i \in DOMAIN sh : sh[i].token = record.token
    THEN [i \in DOMAIN sh |-> IF sh[i].token = record.token THEN record ELSE sh[i]]
  ELSE Append(sh, record)

\* loadShareStore: the items of the parsed file that have the four fields
LoadableItem(item) == item.k = "share"
RECURSIVE loadShareStore(_, _)
loadShareStore(sh, data) ==
  IF data = <<>> THEN sh
  ELSE IF LoadableItem(Head(data))
    THEN loadShareStore(MapSet(sh, ShareRecord(Head(data).token, Head(data).path,
                                              Head(data).rootReal, Head(data).createdAt)),
                        Tail(data))
  ELSE loadShareStore(sh, Tail(data))

storeShare(sh, record) == MapSet(sh, record)

\* findShareForPath: a record of the path without a root takes the caller's
\* root; the answer is the first of the newest records of the path and root
findShareForPath(sh, targetPath, rootReal) ==
  LET after == [i \in DOMAIN sh |->
                  IF sh[i].path = targetPath /\ sh[i].rootReal = <<>>
                    THEN [sh[i] EXCEPT !.rootReal = rootReal] ELSE sh[i]]
      hits == { i \in DOMAIN after : after[i].path = targetPath /\ after[i].rootReal = rootReal }
  IN [shares |-> after,
      match |-> IF hits = {} THEN NoShare
                ELSE after[CHOOSE i \in hits : \A j \in hits :
                             \/ after[j].createdAt < after[i].createdAt
                             \/ after[j].createdAt = after[i].createdAt /\ i <= j]]

\* the purge of a forced re-share left out
removeSharesForPath_KeepAll(sh, targetPath, rootReal) == sh

removeSharesForPath(sh, targetPath, rootReal) ==
  SelectSeq(sh, LAMBDA r : ~(r.path = targetPath /\ (r.rootReal = <<>> \/ r.rootReal = rootReal)))

getShareRecord(sh, token) ==
  IF \E i \in DOMAIN sh : sh[i].token = token
    THEN sh[CHOOSE i \in DOMAIN sh : sh[i].token = token]
  ELSE NoShare

ReplyShare(sh, r) == [shares |-> sh, resp |-> r]

\* what both backends tell POST /api/share and GET /api/share of the path
ShareTarget(f, b, ss, requestPath) ==
  IF mode = "s3"
    THEN Bind(resolveSafeS3Path(requestPath, ss.rootReal), LAMBDA resolved :
         IF ~resolved.ok THEN [ok |-> FALSE, threw |-> FALSE] ELSE
         [ok |-> TRUE, normalized |-> resolved.normalized, threw |-> FALSE,
          type |-> getS3PathInfo(b, ss.rootReal, resolved.normalized).type,
          size |-> getS3PathInfo(b, ss.rootReal, resolved.normalized).size])
  ELSE Bind(resolveSafePath(f, requestPath, ss.rootReal), LAMBDA resolved :
       IF ~resolved.ok THEN [ok |-> FALSE, threw |-> FALSE] ELSE
       [ok |-> TRUE, normalized |-> resolved.normalized, threw |-> FALSE,
        fullPath |-> resolved.fullPath,
        type |-> IF IsFile(f, resolved.fullPath) THEN "file" ELSE "dir",
        size |-> IF IsFile(f, resolved.fullPath) THEN Len(f[resolved.fullPath].c) ELSE 0])

\* POST /api/share; token is the value randomUUID() gives, now is Date.now()
shareCreate(f, b, sh, ss, requestPath, force, token, now) ==
  LET req == [op |-> "share_create", path |-> requestPath, force |-> force,
              rootReal |-> ss.rootReal] IN
  IF requestPath = <<>> THEN ReplyShare(sh, req @@ [code |-> 400]) ELSE
  Bind(ShareTarget(f, b, ss, requestPath), LAMBDA resolved :
  IF ~resolved.ok THEN ReplyShare(sh, req @@ [code |-> 404])
  ELSE IF mode = "s3" /\ resolved.type = "none" THEN ReplyShare(sh, req @@ [code |-> 404])
  ELSE IF resolved.type # "file" THEN ReplyShare(sh, req @@ [code |-> 400]) ELSE
  Bind(IF force THEN [shares |-> removeSharesForPath(sh, resolved.normalized, ss.rootReal),
                      match |-> NoShare]
       ELSE findShareForPath(sh, resolved.normalized, ss.rootReal), LAMBDA found :
  IF found.match # NoShare
    THEN ReplyShare(found.shares, req @@ [code |-> 200, token |-> found.match.token])
  ELSE ReplyShare(storeShare(found.shares,
                             ShareRecord(token, resolved.normalized, ss.rootReal, now)),
                  req @@ [code |-> 200, token |-> token])))

\* GET /api/share?path=
shareLookup(f, b, sh, ss, requestPath) ==
  LET req == [op |-> "share_lookup", path |-> requestPath, rootReal |-> ss.rootReal] IN
  IF requestPath = <<>> THEN ReplyShare(sh, req @@ [code |-> 400]) ELSE
  Bind(ShareTarget(f, b, ss, requestPath), LAMBDA resolved :
  IF ~resolved.ok \/ resolved.type # "file" THEN ReplyShare(sh, req @@ [code |-> 404]) ELSE
  Bind(findShareForPath(sh, resolved.normalized, ss.rootReal), LAMBDA found :
  ReplyShare(found.shares, req @@ [code |-> 200, token |-> found.match.token])))

\* GET /api/share/:token
shareResolve(f, b, sh, token) ==
  LET req == [op |-> "share_resolve", token |-> token] IN
  Bind(getShareRecord(sh, token), LAMBDA record :
  IF record = NoShare THEN ReplyShare(sh, req @@ [code |-> 404]) ELSE
  Bind(ShareTarget(f, b, [rootReal |-> record.rootReal], record.path), LAMBDA resolved :
  IF ~resolved.ok \/ resolved.type # "file" THEN ReplyShare(sh, req @@ [code |-> 404])
  ELSE ReplyShare(sh, req @@ [code |-> 200, path |-> resolved.normalized,
                              rootReal |-> record.rootReal, size |-> resolved.size])))

(***************************************************************************)
(* The share requests of two users, one rooted at the root and one at its  *)
(* directory a; both roots hold a file f.x.  The registry starts as        *)
(* loadShareStore leaves it: empty, or with records of f.x that name no    *)
(* root.                                                                   *)
(***************************************************************************)
ShareFs == FileFs @@ (ROOT_REAL \o << <<"a">>, FILE_X >> :> FileNode(<<2>>))
ShareBucket == FileBucket @@ (S3_ROOT \o <<"a", SEP>> \o FILE_X :> S3Object(<<2>>))

ShareRoots ==
  IF mode = "local" THEN { ROOT_REAL, Append(ROOT_REAL, <<"a">>) }
  ELSE { S3_ROOT, S3_ROOT \o <<"a", SEP>> }

StoredItem(token, createdAt) ==
  [k |-> "share", token |-> token, path |-> <<SEP>> \o FILE_X, rootReal |-> <<>>,
   createdAt |-> createdAt]

ShareFiles ==
  { <<>>, <<StoredItem(<<"8">>, -2)>>, <<[k |-> "junk"], StoredItem(<<"8">>, -2)>>,
    <<StoredItem(<<"8">>, -2), StoredItem(<<"9">>, -1)>>,
    <<StoredItem(<<"9">>, -1), StoredItem(<<"8">>, -2)>> }

SharePaths == { <<SEP>> \o FILE_X, FILE_X, <<SEP, "a">>, <<SEP, "a", SEP, "a">>, <<SEP, "n">> }

\* most requests one behaviour of the share specification serves
MaxShareSteps == 3

ShareTokens == { Uuid(n) : n \in 1..MaxShareSteps } \cup { <<"8">>, <<"9">> }

SessionOf(rootReal) == [user |-> "u", role |-> role, rootReal |-> rootReal]

ShareCreateReq(rootReal, path, force) ==
  /\ \E out \in { shareCreate(fs, s3, shares, SessionOf(rootReal), path, force,
                              Uuid(nextId + 1), steps) } :
       /\ shares' = out.shares
       /\ resp' = out.resp
       /\ nextId' = IF out.resp.code = 200 /\ out.resp.token = Uuid(nextId + 1)
                      THEN nextId + 1 ELSE nextId
  /\ UNCHANGED <<mode, fs, s3, mpu, inflight, sent, input, role, snap>>

ShareLookupReq(rootReal, path) ==
  /\ \E out \in { shareLookup(fs, s3, shares, SessionOf(rootReal), path) } :
       shares' = out.shares /\ resp' = out.resp
  /\ UNCHANGED <<mode, fs, s3, mpu, inflight, nextId, sent, input, role, snap>>

ShareResolveReq(token) ==
  /\ \E out \in { shareResolve(fs, s3, shares, token) } :
       shares' = out.shares /\ resp' = out.resp
  /\ UNCHANGED <<mode, fs, s3, mpu, inflight, nextId, sent, input, role, snap>>

InitShare ==
  /\ mode \in {"local", "s3"}
  /\ fs = IF mode = "local" THEN ShareFs ELSE BaseFs
  /\ s3 = IF mode = "s3" THEN ShareBucket ELSE <<>>
  /\ mpu = <<>>
  /\ inflight = {}
  /\ resp = NoResp
  /\ nextId = 0
  /\ sent = <<>>
  /\ steps = 0
  /\ input = <<>>
  /\ role = "read-write"
  /\ shares \in { loadShareStore(<<>>, data) : data \in ShareFiles }
  /\ snap = <<>>

NextShare ==
  \/ \E rootReal \in ShareRoots, path \in SharePaths, force \in BOOLEAN :
       Within(MaxShareSteps) /\ ShareCreateReq(rootReal, path, force)
  \/ \E rootReal \in ShareRoots, path \in SharePaths :
       Within(MaxShareSteps) /\ ShareLookupReq(rootReal, path)
  \/ \E token \in ShareTokens : Within(MaxShareSteps) /\ ShareResolveReq(token)

SpecShare == InitShare /\ [][NextShare]_vars

\* the tokens of the records of a path and root
TokensFor(sh, p, rootReal) ==
  { sh[i].token : i \in { j \in DOMAIN sh : sh[j].path = p /\ sh[j].rootReal = rootReal } }

\* a share creation has just been answered ok
ShareCreated(r) == r.op = "share_create" /\ r.code = 200

\* C17: a share creation without force that follows an answered creation for
\* the same path and root gives the same token and leaves the registry as
\* it was; a creation with force gives a token no record had, after it every
\* earlier token of the path and root resolves to NotFound (404) and the new
\* token resolves to the path under the root
C17_ShareCreateIdempotentForceRotates ==
  [][ (steps' = steps + 1 /\ ShareCreated(resp') /\ resp' # NoResp)
        => /\ (/\ ~resp'.force /\ ShareCreated(resp)
               /\ resp.rootReal = resp'.rootReal
               /\ normalizeRequestPath(resp.path) = normalizeRequestPath(resp'.path))
                => (resp'.token = resp.token /\ shares' = shares)
           /\ resp'.force
                => /\ \A i \in DOMAIN shares : shares[i].token # resp'.token
                   /\ \A t \in TokensFor(shares, normalizeRequestPath(resp'.path), resp'.rootReal) :
                        shareResolve(fs', s3', shares', t).resp.code = 404
                   /\ shareResolve(fs', s3', shares', resp'.token).resp
                        = [op |-> "share_resolve", token |-> resp'.token, code |-> 200,
                           path |-> normalizeRequestPath(resp'.path),
                           rootReal |-> resp'.rootReal,
                           size |-> shareResolve(fs', s3', shares', resp'.token).resp.size] ]_vars

\* a forced creation was answered after an earlier creation for the same
\* path and root, whose token is gone
C17_Witness ==
  /\ ShareCreated(resp) /\ resp.force /\ resp.token = Uuid(2)
  /\ getShareRecord(shares, Uuid(1)) = NoShare
  /\ Len(shares) = 1

\* the places in the registry of the records of a path and root
RecordsFor(sh, p, rootReal) == { i \in DOMAIN sh : sh[i].path = p /\ sh[i].rootReal = rootReal }

\* C18: an answered lookup gives the token of a record of the path and root
\* that has the greatest createdAt among them, or none when there is no such
\* record, and leaves every record as it was
C18_Counterexample ==
  [][ (steps' = steps + 1 /\ resp'.op = "share_lookup" /\ resp'.code = 200)
        => LET hits == RecordsFor(shares, normalizeRequestPath(resp'.path), resp'.rootReal) IN
           /\ hits = {} => resp'.token = NoShare.token
           /\ hits # {} => \E i \in hits : /\ shares[i].token = resp'.token
                                           /\ \A j \in hits : shares[j].createdAt <= shares[i].createdAt
           /\ shares' = shares ]_vars

(***************************************************************************)
(* Text preview, for a session and through a share token.                  *)
(***************************************************************************)
MAX_PREVIEW_BYTES == 200 * 1024

\* GET /api/preview (local)
localPreview(f, ss, requestPath) ==
  LET req == [op |-> "preview", path |-> requestPath, rootReal |-> ss.rootReal] IN
  IF requestPath = <<>> THEN req @@ [code |-> 400, error |-> "Path is required."] ELSE
  Bind(resolveSafePath(f, requestPath, ss.rootReal), LAMBDA resolved :
  IF ~resolved.ok THEN req @@ [code |-> 404, error |-> "not found"]
  ELSE IF ~IsFile(f, resolved.fullPath)
    THEN req @@ [code |-> 400, error |-> "Path is not a file."]
  ELSE IF ~isTextPreviewable(resolved.fullPath)
    THEN req @@ [code |-> 400, error |-> "Preview not available for this file type."]
  ELSE IF StatSize(f[resolved.fullPath]) > MAX_PREVIEW_BYTES
    THEN req @@ [code |-> 413, error |-> "File is too large to preview."]
  ELSE req @@ [code |-> 200, error |-> "", loc |-> resolved.fullPath,
               content |-> f[resolved.fullPath].c])

handleS3Preview(b, ss, requestPath) ==
  LET req == [op |-> "preview", path |-> requestPath, rootReal |-> ss.rootReal] IN
  IF requestPath = <<>> THEN req @@ [code |-> 400, error |-> "Path is required."] ELSE
  Bind(resolveSafeS3Path(requestPath, ss.rootReal), LAMBDA resolved :
  IF ~resolved.ok THEN req @@ [code |-> 404, error |-> "not found"] ELSE
  Bind(getS3PathInfo(b, ss.rootReal, resolved.normalized), LAMBDA info :
  IF info.type = "none" THEN req @@ [code |-> 404, error |-> "not found"]
  ELSE IF info.type # "file" THEN req @@ [code |-> 400, error |-> "Path is not a file."]
  ELSE IF ~isTextPreviewable(SegsOf(resolved.normalized))
    THEN req @@ [code |-> 400, error |-> "Preview not available for this file type."]
  ELSE IF info.size > MAX_PREVIEW_BYTES
    THEN req @@ [code |-> 413, error |-> "File is too large to preview."]
  ELSE Bind(toS3Key(ss.rootReal, resolved.normalized), LAMBDA key :
       req @@ [code |-> 200, error |-> "", loc |-> key, content |-> b[key].c])))

\* GET /api/share/:token/preview
sharePreview(f, b, sh, token) ==
  LET req == [op |-> "share_preview", token |-> token] IN
  Bind(getShareRecord(sh, token), LAMBDA record :
  IF record = NoShare THEN req @@ [code |-> 404, error |-> "not found"]
  ELSE IF mode = "s3" THEN
    Bind(resolveSafeS3Path(record.path, record.rootReal), LAMBDA resolved :
    IF ~resolved.ok THEN req @@ [code |-> 404, error |-> "not found"] ELSE
    Bind(getS3PathInfo(b, record.rootReal, resolved.normalized), LAMBDA info :
    IF info.type # "file" THEN req @@ [code |-> 404, error |-> "not found"]
    ELSE IF ~isTextPreviewable(SegsOf(resolved.normalized))
      THEN req @@ [code |-> 400, error |-> "Preview not available for this file type."]
    ELSE IF info.size > MAX_PREVIEW_BYTES
      THEN req @@ [code |-> 413, error |-> "File is too large to preview."]
    ELSE Bind(toS3Key(record.rootReal, resolved.normalized), LAMBDA key :
         req @@ [code |-> 200, error |-> "", loc |-> key, content |-> b[key].c])))
  ELSE
    Bind(resolveSafePath(f, record.path, record.rootReal), LAMBDA resolved :
    IF ~resolved.ok THEN req @@ [code |-> 404, error |-> "not found"]
    ELSE IF ~IsFile(f, resolved.fullPath) THEN req @@ [code |-> 404, error |-> "not found"]
    ELSE IF ~isTextPreviewable(resolved.fullPath)
      THEN req @@ [code |-> 400, error |-> "Preview not available for this file type."]
    ELSE IF StatSize(f[resolved.fullPath]) > MAX_PREVIEW_BYTES
      THEN req @@ [code |-> 413, error |-> "File is too large to preview."]
    ELSE req @@ [code |-> 200, error |-> "", loc |-> resolved.fullPath,
                 content |-> f[resolved.fullPath].c]))

PreviewReq(rootReal, path) ==
  /\ resp' = IF mode = "local" THEN localPreview(fs, SessionOf(rootReal), path)
             ELSE handleS3Preview(s3, SessionOf(rootReal), path)
  /\ UNCHANGED <<mode, fs, s3, mpu, inflight, nextId, sent, input, role, shares, snap>>

SharePreviewReq(token) ==
  /\ resp' = sharePreview(fs, s3, shares, token)
  /\ UNCHANGED <<mode, fs, s3, mpu, inflight, nextId, sent, input, role, shares, snap>>

(***************************************************************************)
(* Previews of shared files while the files come and go.  Next to a and    *)
(* f.x the root holds b.x, a text file one byte above the preview cap.     *)
(***************************************************************************)
FILE_B == <<"b", DOT, "x">>

PreviewFs ==
  FileFs @@ (Append(ROOT_REAL, FILE_B) :> (FileNode(<<7>>) @@ [size |-> MAX_PREVIEW_BYTES + 1]))

PreviewBucket ==
  FileBucket @@ (S3_ROOT \o FILE_B :> (S3Object(<<7>>) @@ [size |-> MAX_PREVIEW_BYTES + 1]))

PreviewPaths ==
  { <<SEP>> \o FILE_X, <<SEP>> \o FILE_B, <<SEP, "a">>, <<SEP, "a", SEP, "a">>, <<SEP, "n">> }

\* most requests one behaviour of the preview specification serves
MaxPreviewSteps == 4

PreviewTokens == { Uuid(1), Uuid(2) }

InitPreview ==
  /\ mode \in {"local", "s3"}
  /\ fs = IF mode = "local" THEN PreviewFs ELSE BaseFs
  /\ s3 = IF mode = "s3" THEN PreviewBucket ELSE <<>>
  /\ mpu = <<>>
  /\ inflight = {}
  /\ resp = NoResp
  /\ nextId = 0
  /\ sent = <<>>
  /\ steps = 0
  /\ input = <<>>
  /\ role = "read-write"
  /\ shares = <<>>
  /\ snap = <<>>

\* a share and a trashed item draw their ids from the one randomUUID()
NextPreview ==
  \/ \E path \in PreviewPaths :
       Within(MaxPreviewSteps) /\ ShareCreateReq(Session.rootReal, path, FALSE)
  \/ Within(MaxPreviewSteps) /\ TrashReq(<<SEP>> \o FILE_X)
  \/ Within(MaxPreviewSteps) /\ MkdirReq(<<SEP>>, FILE_X)
  \/ \E path \in PreviewPaths :
       Within(MaxPreviewSteps) /\ PreviewReq(Session.rootReal, path)
  \/ \E token \in PreviewTokens : Within(MaxPreviewSteps) /\ SharePreviewReq(token)

SpecPreview == InitPreview /\ [][NextPreview]_vars

\* what a preview tells its caller
Outcome(r) ==
  [code |-> r.code, error |-> r.error,
   content |-> IF r.code = 200 THEN r.content ELSE <<>>]

\* the preview a session rooted at the record's root gets of the record's path
PreviewOfRecord(f, b, record) ==
  IF mode = "local" THEN localPreview(f, SessionOf(record.rootReal), record.path)
  ELSE handleS3Preview(b, SessionOf(record.rootReal), record.path)

\* the place a preview was read from lies in the root and not in its trash
ServedInRoot(r, rootReal) ==
  IF mode = "local"
    THEN IsPrefix(rootReal, r.loc) /\ ~IsPrefix(Append(rootReal, TRASH), r.loc)
  ELSE StartsWith(r.loc, rootReal) /\ ~StartsWith(r.loc, rootReal \o TRASH \o <<SEP>>)

\* C19: the preview through a token of the registry tells its caller what
\* the preview of the record's path tells a session rooted at the record's
\* root (not found, type not allowed, too large, or the content), and what
\* it serves lies in the record's root and outside its trash
C19_Counterexample ==
  [][ (/\ steps' = steps + 1 /\ resp'.op = "share_preview"
       /\ getShareRecord(shares, resp'.token) # NoShare)
        => /\ Outcome(resp') = Outcome(PreviewOfRecord(fs, s3, getShareRecord(shares, resp'.token)))
           /\ resp'.code = 200
                => ServedInRoot(resp', getShareRecord(shares, resp'.token).rootReal) ]_vars

(***************************************************************************)
(* A read-only session.  A user who may write leaves a trashed item, an    *)
(* upload under way and a share; then a user whose role is read-only signs *)
(* in to the same root and sends every request that changes state.         *)
(***************************************************************************)
\* POST /api/login of the read-only user: the session takes the user's role
SignIn ==
  /\ role = "read-write"
  /\ role' = "read-only"
  /\ UNCHANGED <<mode, fs, s3, mpu, inflight, resp, nextId, sent, steps, input, shares, snap>>

\* most requests of one behaviour of the read-only specification that count
\* their steps
MaxReadOnlySteps == 3
\* most ids randomUUID() gives in one behaviour of the read-only specification
MaxReadOnlyIds == 3

ReadOnlyPaths == { <<SEP>> \o FILE_X, <<SEP, "a">> }
ReadOnlyIds == { Uuid(n) : n \in 1..MaxReadOnlyIds }

InitReadOnly ==
  /\ mode \in {"local", "s3"}
  /\ fs = IF mode = "local" THEN FileFs ELSE BaseFs
  /\ s3 = IF mode = "s3" THEN FileBucket ELSE <<>>
  /\ mpu = <<>>
  /\ inflight = {}
  /\ resp = NoResp
  /\ nextId = 0
  /\ sent = <<>>
  /\ steps = 0
  /\ input = <<>>
  /\ role = "read-write"
  /\ shares = <<>>
  /\ snap = <<>>

NextReadOnly ==
  \/ role = "read-write" /\ nextId < MaxReadOnlyIds /\ Within(MaxReadOnlySteps)
       /\ TrashReq(<<SEP>> \o FILE_X)
  \/ role = "read-write" /\ UploadInit(1, MaxReadOnlyIds, <<SEP>>, FILE_F, 1, FALSE)
  \/ role = "read-write" /\ nextId < MaxReadOnlyIds /\ Within(MaxReadOnlySteps)
       /\ ShareCreateReq(Session.rootReal, <<SEP, "a", SEP, "a">>, FALSE)
  \/ SignIn
  \/ \E path \in ReadOnlyPaths :
       role = "read-only" /\ Within(MaxReadOnlySteps) /\ EditSaveReq(path, <<5>>)
  \/ role = "read-only" /\ Within(MaxReadOnlySteps) /\ MkdirReq(<<SEP>>, <<"n">>)
  \/ \E overwrite \in BOOLEAN :
       role = "read-only" /\ Within(MaxReadOnlySteps)
         /\ UploadReq(<<SEP>>, FILE_X, overwrite, <<5>>)
  \/ role = "read-only" /\ UploadInit(1, MaxReadOnlyIds, <<SEP>>, FILE_F, 1, TRUE)
  \/ \E uploadId \in ReadOnlyIds :
       role = "read-only" /\ UploadChunk(1, uploadId, UploadKey, 1, <<1>>)
  \/ \E uploadId \in ReadOnlyIds :
       role = "read-only" /\ UploadComplete(1, uploadId, UploadKey, 1)
  \/ \E from \in ReadOnlyPaths :
       role = "read-only" /\ Within(MaxReadOnlySteps) /\ MoveReq(from, <<SEP, "n">>)
  \/ \E from \in ReadOnlyPaths :
       role = "read-only" /\ Within(MaxReadOnlySteps) /\ CopyReq(from, <<SEP, "n">>)
  \/ \E path \in ReadOnlyPaths :
       role = "read-only" /\ Within(MaxReadOnlySteps) /\ TrashReq(path)
  \/ \E id \in ReadOnlyIds :
       role = "read-only" /\ Within(MaxReadOnlySteps) /\ RestoreReq(id)
  \/ \E path \in { <<SEP>> \o FILE_X, <<SEP, "a", SEP, "a">> }, force \in BOOLEAN :
       role = "read-only" /\ nextId < MaxReadOnlyIds /\ Within(MaxReadOnlySteps)
         /\ ShareCreateReq(Session.rootReal, path, force)

SpecReadOnly == InitReadOnly /\ [][NextReadOnly]_vars

\* C20: every request of a read-only session that would change state is
\* answered ReadOnly (403) and leaves the files, the trash, the uploads and
\* the share registry as they were
C20_Counterexample ==
  [][ role = "read-only"
        => /\ resp'.code = 403
           /\ fs' = fs /\ s3' = s3 /\ mpu' = mpu /\ shares' = shares ]_vars

(***************************************************************************)
(* The two backends side by side: one user sends the same requests to a    *)
(* server on the local backend and to a server on the S3 backend, both     *)
(* starting from an empty root.  resp holds the two answers.  The copy of   *)
(* the root itself is left to the move specification.                      *)
(***************************************************************************)
BothServe(localReply, s3Reply) ==
  /\ fs' = localReply.fs
  /\ s3' = s3Reply.s3
  /\ resp' = [op |-> localReply.resp.op, local |-> localReply.resp, s3 |-> s3Reply.resp]
  /\ UNCHANGED <<mode, mpu, inflight, sent, input, role, shares, snap>>

BothList(path) ==
  /\ BothServe(localList(fs, Writer(ROOT_REAL), path), handleS3List(s3, Writer(S3_ROOT), path))
  /\ UNCHANGED nextId

BothMkdir(path, name) ==
  /\ BothServe(localMkdir(fs, Writer(ROOT_REAL), path, name),
               handleS3Mkdir(s3, Writer(S3_ROOT), path, name))
  /\ UNCHANGED nextId

BothUpload(path, name, overwrite, bytes) ==
  /\ BothServe(localUpload(fs, Writer(ROOT_REAL), path, name, overwrite, bytes),
               handleS3Upload(s3, Writer(S3_ROOT), path, name, overwrite, bytes))
  /\ UNCHANGED nextId

BothMove(from, to) ==
  /\ BothServe(localMove(fs, Writer(ROOT_REAL), from, to),
               handleS3Move(s3, Writer(S3_ROOT), from, to))
  /\ UNCHANGED nextId

BothCopy(from, to) ==
  /\ BothServe(localCopy(fs, Writer(ROOT_REAL), from, to),
               handleS3Copy(s3, Writer(S3_ROOT), from, to))
  /\ UNCHANGED nextId

\* the two servers are given the same value by randomUUID()
BothTrash(path) ==
  /\ BothServe(localTrash(fs, Writer(ROOT_REAL), path, Uuid(nextId + 1), steps),
               handleS3Trash(s3, Writer(S3_ROOT), path, Uuid(nextId + 1), steps))
  /\ nextId' = nextId + 1

BothRestore(id) ==
  /\ BothServe(localRestore(fs, Writer(ROOT_REAL), id),
               handleS3TrashRestore(s3, Writer(S3_ROOT), id))
  /\ UNCHANGED nextId

BothPaths == { <<SEP>>, <<SEP, "a">>, <<SEP, "a", SEP, "a">>, <<SEP, "n">> }
BothNames == { <<"a">>, <<"n">> }

\* most requests one behaviour of the two backends side by side serves
MaxBothSteps == 3

InitBoth ==
  /\ mode = "both"
  /\ fs = BaseFs
  /\ s3 = <<>>
  /\ mpu = <<>>
  /\ inflight = {}
  /\ resp = NoResp
  /\ nextId = 0
  /\ sent = <<>>
  /\ steps = 0
  /\ input = <<>>
  /\ role = "read-write"
  /\ shares = <<>>
  /\ snap = <<>>

NextBoth ==
  \/ \E path \in BothPaths : Within(MaxBothSteps) /\ BothList(path)
  \/ \E path \in BothPaths, name \in BothNames : Within(MaxBothSteps) /\ BothMkdir(path, name)
  \/ \E path \in BothPaths, name \in BothNames, overwrite \in BOOLEAN :
       Within(MaxBothSteps) /\ BothUpload(path, name, overwrite, <<5>>)
  \/ \E from \in BothPaths, to \in BothPaths : Within(MaxBothSteps) /\ BothMove(from, to)
  \/ \E from \in BothPaths \ { <<SEP>> }, to \in BothPaths :
       Within(MaxBothSteps) /\ BothCopy(from, to)
  \/ \E path \in BothPaths : Within(MaxBothSteps) /\ BothTrash(path)
  \/ \E n \in 1..MaxBothSteps : Within(MaxBothSteps) /\ BothRestore(Uuid(n))

SpecBoth == InitBoth /\ [][NextBoth]_vars

\* what a listing tells: its code and, when ok, the names and types
Listing(r) == [code |-> r.code, entries |-> IF r.code = 200 THEN r.entries ELSE {}]

\* C21: the two backends answer every request alike, both with success or
\* both with a failure, and after it list every directory alike
C21_Counterexample ==
  [][ steps' = steps + 1
        => /\ (resp'.local.code = 200) = (resp'.s3.code = 200)
           /\ \A path \in BothPaths :
                Listing(localList(fs', Writer(ROOT_REAL), path).resp)
                  = Listing(handleS3List(s3', Writer(S3_ROOT), path).resp) ]_vars

(***************************************************************************)
(* The editor: texts are saved to the editable files of the root and read  *)
(* back.  input holds the text of the last save.                           *)
(***************************************************************************)
EditSaveText(path, content) ==
  /\ Serve(localEditSave(fs, Session, path, content),
           handleS3EditSave(s3, Session, path, content))
  /\ input' = [path |-> path, content |-> content]
  /\ UNCHANGED <<mode, mpu, inflight, nextId, sent, role, shares, snap>>

EditOpenReq(path, dropsBOM) ==
  /\ Serve(localEditOpen(fs, Session, path, dropsBOM), handleS3EditOpen(s3, Session, path))
  /\ UNCHANGED <<mode, mpu, inflight, nextId, sent, input, role, shares, snap>>

FILE_D == <<"f", DOT, "d">>

EditFs ==
  FileFs @@ (Append(ROOT_REAL, FILE_D) :> FileNode(<<4>>))
         @@ (Append(ROOT_REAL, FILE_B) :> (FileNode(<<7>>) @@ [size |-> MAX_EDIT_BYTES + 1]))

EditBucket ==
  FileBucket @@ (S3_ROOT \o FILE_D :> S3Object(<<4>>))
             @@ (S3_ROOT \o FILE_B :> (S3Object(<<7>>) @@ [size |-> MAX_EDIT_BYTES + 1]))

EditPaths ==
  { <<SEP>> \o FILE_X, <<SEP>> \o FILE_D, <<SEP>> \o FILE_B, <<SEP, "a">>,
    <<SEP, "a", SEP, "a">>, <<SEP, "n">> }

\* a, e acute, the euro sign, the two halves of an emoji, the byte order mark
EditUnits == { 97, 233, 8364, 55357, 56832, BYTE_ORDER_MARK }

\* longest text saved
MaxTextLen == 2

EditTexts == UNION { [1..n -> EditUnits] : n \in 0..MaxTextLen }

\* most requests one behaviour of the editor specification serves
MaxEditSteps == 2

InitEdit ==
  /\ mode \in {"local", "s3"}
  /\ fs = IF mode = "local" THEN EditFs ELSE BaseFs
  /\ s3 = IF mode = "s3" THEN EditBucket ELSE <<>>
  /\ mpu = <<>>
  /\ inflight = {}
  /\ resp = NoResp
  /\ nextId = 0
  /\ sent = <<>>
  /\ steps = 0
  /\ input = [path |-> <<>>, content |-> <<>>]
  /\ role = "read-write"
  /\ shares = <<>>
  /\ snap = <<>>

NextEdit ==
  \/ \E path \in EditPaths, content \in EditTexts :
       Within(MaxEditSteps) /\ EditSaveText(path, content)
  \/ \E path \in EditPaths, dropsBOM \in BOOLEAN :
       Within(MaxEditSteps) /\ EditOpenReq(path, dropsBOM)

SpecEdit == InitEdit /\ [][NextEdit]_vars

\* C22: a text saved through the editor to an existing file with an editable
\* extension and opened again straight after comes back exactly as saved, in
\* both backends
C22_Counterexample ==
  [][ (/\ resp.op = "edit_save" /\ resp.code = 200
       /\ resp'.op = "edit_open" /\ resp'.path = resp.path)
        => resp'.code = 200 /\ resp'.content = input.content ]_vars

(***************************************************************************)
(* Trash and restore step by step.  A trash request moves the item into    *)
(* the trash and then writes its record; a restore moves the item back and *)
(* then removes the record.  The server may stop between the two steps:    *)
(* the requests in flight are lost, the stores stay as they are.           *)
(***************************************************************************)
\* POST /api/trash (local) up to and with fs.rename
localTrashMoved(f, ss, requestPath, id, now) ==
  LET req == [op |-> "trash", path |-> requestPath] IN
  IF ~canWrite(ss.role) THEN Refused(Reply(f, req @@ [code |-> 403])) ELSE
  Bind(resolveSafePath(f, requestPath, ss.rootReal), LAMBDA resolved :
  IF ~resolved.ok THEN Refused(Reply(f, req @@ [code |-> 404]))
  ELSE IF resolved.normalized = <<SEP>> THEN Refused(Reply(f, req @@ [code |-> 400])) ELSE
  Bind(getTrashPaths(ss.rootReal), LAMBDA tp :
  Bind(ensureTrashDirs(f, tp.metaDir), LAMBDA dirs :
  IF ~dirs.ok THEN Refused(Reply(f, req @@ [code |-> 500])) ELSE
  Bind(OrItem(sanitizeName(Last(resolved.fullPath))), LAMBDA fileName :
  Bind(Append(tp.trashDir, TrashName(fileName, id)), LAMBDA trashPath :
  Bind(RenameAt(dirs.fs, resolved.fullPath, trashPath), LAMBDA moved :
  IF ~moved.ok THEN Refused(Reply(dirs.fs, req @@ [code |-> 500]))
  ELSE Passed(req, resolved.fullPath, trashPath,
              [store |-> moved.fs,
               metaFile |-> Append(tp.metaDir, id \o <<"J">>),
               record |-> TrashRecord(id, fileName, resolved.normalized, now,
                                      IsDir(f, resolved.fullPath),
                                      IF IsFile(f, resolved.fullPath)
                                        THEN Len(f[resolved.fullPath].c) ELSE 0)])))))))

\* handleS3Trash up to and with moveS3Path
handleS3TrashMoved(b, ss, requestPath, id, now) ==
  LET req == [op |-> "trash", path |-> requestPath] IN
  IF ~canWrite(ss.role) THEN Refused(ReplyS3(b, req @@ [code |-> 403])) ELSE
  Bind(resolveSafeS3Path(requestPath, ss.rootReal), LAMBDA resolved :
  IF ~resolved.ok THEN Refused(ReplyS3(b, req @@ [code |-> 404]))
  ELSE IF resolved.normalized = <<SEP>> THEN Refused(ReplyS3(b, req @@ [code |-> 400])) ELSE
  Bind(getS3PathInfo(b, ss.rootReal, resolved.normalized), LAMBDA info :
  IF info.type = "none" THEN Refused(ReplyS3(b, req @@ [code |-> 404])) ELSE
  Bind(OrItem(sanitizeName(posixBasename(resolved.normalized))), LAMBDA fileName :
  Bind(<<SEP>> \o TRASH \o <<SEP>> \o TrashName(fileName, id), LAMBDA trashPath :
  Bind(moveS3Path(b, ss.rootReal, resolved.normalized, trashPath, info.type), LAMBDA moved :
  IF ~moved.ok THEN Refused(ReplyS3(b, req @@ [code |-> 500]))
  ELSE Passed(req, resolved.normalized, trashPath,
              [store |-> moved.s3,
               metaFile |-> getTrashPrefixesS3(ss.rootReal).metaPrefix \o id \o <<"J">>,
               record |-> TrashRecord(id, fileName, resolved.normalized, now,
                                      info.type = "dir",
                                      IF info.type = "file" THEN info.size ELSE 0)]))))))

\* the first step of a trash request
TrashMoved(path) ==
  /\ inflight = {}
  /\ \E step \in { IF mode = "local"
                      THEN localTrashMoved(fs, Session, path, Uuid(nextId + 1), steps)
                      ELSE handleS3TrashMoved(s3, Session, path, Uuid(nextId + 1), steps) } :
       IF ~step.pass
         THEN /\ resp' = step.out.resp
              /\ fs' = IF mode = "local" THEN step.out.fs ELSE fs
              /\ s3' = IF mode = "s3" THEN step.out.s3 ELSE s3
              /\ UNCHANGED <<inflight, nextId>>
         ELSE /\ fs' = IF mode = "local" THEN step.store ELSE fs
              /\ s3' = IF mode = "s3" THEN step.store ELSE s3
              /\ inflight' = { [f \in DOMAIN step \ {"store"} |-> step[f]] }
              /\ nextId' = nextId + 1
              /\ UNCHANGED resp
  /\ UNCHANGED <<mode, mpu, sent, input, role, shares, snap>>

\* the second step of a trash request: fs.writeFile or s3PutObject of the
\* record, and the answer
TrashRecordWritten(p) ==
  /\ p.req.op = "trash"
  /\ IF mode = "local"
       THEN \E written \in { WriteThrough(fs, p.metaFile, JsonNode(p.record)) } :
              /\ fs' = written.fs
              /\ resp' = p.req @@ (IF written.ok THEN [code |-> 200, item |-> p.record]
                                   ELSE [code |-> 500])
              /\ s3' = s3
       ELSE /\ s3' = s3PutObject(s3, p.metaFile, S3Json(p.record))
            /\ resp' = p.req @@ [code |-> 200, item |-> p.record]
            /\ fs' = fs
  /\ inflight' = inflight \ {p}
  /\ UNCHANGED <<mode, mpu, nextId, sent, input, role, shares, snap>>

\* a restore request up to and with fs.rename or moveS3Path
RestoreMoved(id) ==
  /\ inflight = {}
  /\ \E checks \in { IF mode = "local" THEN localRestoreChecks(fs, Session, id)
                       ELSE handleS3TrashRestoreChecks(s3, Session, id) } :
       IF ~checks.pass
         THEN /\ resp' = checks.out.resp
              /\ fs' = IF mode = "local" THEN checks.out.fs ELSE fs
              /\ s3' = IF mode = "s3" THEN checks.out.s3 ELSE s3
              /\ UNCHANGED inflight
         ELSE IF mode = "local"
           THEN \E moved \in { RenameAt(checks.fs, checks.src, checks.dst) } :
                  /\ fs' = moved.fs
                  /\ s3' = s3
                  /\ IF moved.ok
                       THEN inflight' = { [f \in DOMAIN checks \ {"fs"} |-> checks[f]] }
                            /\ UNCHANGED resp
                       ELSE resp' = checks.req @@ [code |-> 500] /\ UNCHANGED inflight
           ELSE \E moved \in { moveS3Path(s3, Session.rootReal, checks.src, checks.dst,
                                           checks.type) } :
                  /\ s3' = moved.s3
                  /\ fs' = fs
                  /\ IF moved.ok
                       THEN inflight' = { checks } /\ UNCHANGED resp
                       ELSE resp' = checks.req @@ [code |-> 500] /\ UNCHANGED inflight
  /\ UNCHANGED <<mode, mpu, nextId, sent, input, role, shares, snap>>

\* the last step of a restore request: fs.unlink or s3DeleteObject of the
\* record, and the answer
RestoreRecordRemoved(p) ==
  /\ p.req.op = "restore"
  /\ IF mode = "local"
       THEN \E unlinked \in { UnlinkAt(fs, p.metaFile) } :
              /\ fs' = unlinked.fs
              /\ resp' = p.req @@ [code |-> IF unlinked.ok THEN 200 ELSE 500]
              /\ s3' = s3
       ELSE /\ s3' = s3DeleteObject(s3, p.metaFile)
            /\ resp' = p.req @@ [code |-> 200]
            /\ fs' = fs
  /\ inflight' = inflight \ {p}
  /\ UNCHANGED <<mode, mpu, nextId, sent, input, role, shares, snap>>

\* the server stops and starts again
Crash ==
  /\ inflight # {}
  /\ inflight' = {}
  /\ resp' = [op |-> "crash"]
  /\ UNCHANGED <<mode, fs, s3, mpu, nextId, sent, input, role, shares, snap>>

TrashStepPaths == { <<SEP, "a">>, <<SEP, "a", SEP, "a">>, <<SEP>> \o FILE_X, <<SEP, "n">> }

\* most steps of one behaviour of the stepwise trash specification
MaxTrashMoves == 5

InitTrashSteps ==
  /\ mode \in {"local", "s3"}
  /\ fs = IF mode = "local" THEN FileFs ELSE BaseFs
  /\ s3 = IF mode = "s3" THEN FileBucket ELSE <<>>
  /\ mpu = <<>>
  /\ inflight = {}
  /\ resp = NoResp
  /\ nextId = 0
  /\ sent = <<>>
  /\ steps = 0
  /\ input = <<>>
  /\ role = "read-write"
  /\ shares = <<>>
  /\ snap = <<>>

NextTrashSteps ==
  \/ \E path \in TrashStepPaths : Within(MaxTrashMoves) /\ TrashMoved(path)
  \/ \E p \in inflight : Within(MaxTrashMoves) /\ TrashRecordWritten(p)
  \/ \E n \in 1..MaxTrashMoves : Within(MaxTrashMoves) /\ RestoreMoved(Uuid(n))
  \/ \E p \in inflight : Within(MaxTrashMoves) /\ RestoreRecordRemoved(p)
  \/ Within(MaxTrashMoves) /\ Crash

SpecTrashSteps == InitTrashSteps /\ [][NextTrashSteps]_vars

\* the first segment of the key k below the prefix
FirstBelow(k, prefix) ==
  LET rest == SubSeq(k, Len(prefix) + 1, Len(k))
      ends == { i \in 1..Len(rest) : rest[i] = SEP }
  IN IF ends = {} THEN rest
     ELSE SubSeq(rest, 1, (CHOOSE i \in ends : \A j \in ends : i <= j) - 1)

\* the names of the trashed objects: the entries of /.trash but .meta
TrashedNames(f, b) ==
  IF mode = "local"
    THEN { Last(q) : q \in { q \in Children(f, Append(ROOT_REAL, TRASH)) : Last(q) # META } }
    ELSE { n \in { FirstBelow(k, S3_ROOT \o TRASH \o <<SEP>>) :
                     k \in listS3Objects(b, S3_ROOT \o TRASH \o <<SEP>>) } :
             n # <<>> /\ n # META }

\* C28: at every moment every trashed object has exactly one record that
\* names it and every record names a trashed object
C28_Counterexample ==
  /\ \A name \in TrashedNames(fs, s3) :
        Cardinality({ r \in TrashRecords(fs, s3) : r.k = "trash" /\ r.trashName = name }) = 1
  /\ \A r \in TrashRecords(fs, s3) : r.k = "trash" /\ r.trashName \in TrashedNames(fs, s3)

(***************************************************************************)
(* The move of one file step by step.  The local handler renames; the S3   *)
(* handler copies the object to the new key and then deletes the old key,  *)
(* two requests to the bucket with the other requests served in between.   *)
(***************************************************************************)
\* moveS3Path, type "file": `await s3CopyObject(fromKey, toKey)`
MoveCopied(p) ==
  /\ mode = "s3" /\ p.req.op = "move" /\ p.type = "file" /\ "copied" \notin DOMAIN p
  /\ \E fromKey \in { toS3Key(Session.rootReal, p.src) }, toKey \in { toS3Key(Session.rootReal, p.dst) } :
       IF s3CopyOk(s3, fromKey)
         THEN /\ s3' = s3CopyObject(s3, fromKey, toKey)
              /\ inflight' = (inflight \ {p}) \cup { p @@ [copied |-> TRUE] }
              /\ UNCHANGED resp
         ELSE /\ resp' = p.req @@ [code |-> 500]
              /\ inflight' = inflight \ {p}
              /\ UNCHANGED s3
  /\ UNCHANGED <<mode, fs, mpu, nextId, sent, input, role, shares, snap>>

\* moveS3Path, type "file": `await s3DeleteObject(fromKey)`, and the answer
MoveDeleted(p) ==
  /\ mode = "s3" /\ p.req.op = "move" /\ "copied" \in DOMAIN p
  /\ s3' = s3DeleteObject(s3, toS3Key(Session.rootReal, p.src))
  /\ resp' = p.req @@ [code |-> 200]
  /\ inflight' = inflight \ {p}
  /\ UNCHANGED <<mode, fs, mpu, nextId, sent, input, role, shares, snap>>

\* POST /api/move (local): fs.rename and the answer; moveS3Path of a folder
MoveRenamed(p) ==
  /\ p.req.op = "move"
  /\ mode = "s3" => p.type = "dir"
  /\ Writes(p)

\* GET /api/download of a file while a move is in flight
ReadDuringMove(path) ==
  /\ inflight # {}
  /\ DownloadReq(path)

FileMoveFrom == { <<SEP>> \o FILE_X, <<SEP, "a", SEP, "a">>, <<SEP, "a">>, <<SEP, "n">> }
FileMoveTo == { <<SEP, "n">>, <<SEP, "a", SEP, "n">>, <<SEP>> \o FILE_X }

\* most steps of one behaviour of the stepwise move specification
MaxFileMoveSteps == 5

NextMoveSteps ==
  \/ \E from \in FileMoveFrom, to \in FileMoveTo :
       Within(MaxFileMoveSteps) /\ inflight = {} /\ MoveChecks(from, to)
  \/ \E p \in inflight : Within(MaxFileMoveSteps) /\ MoveCopied(p)
  \/ \E p \in inflight : Within(MaxFileMoveSteps) /\ MoveDeleted(p)
  \/ \E p \in inflight : Within(MaxFileMoveSteps) /\ MoveRenamed(p)
  \/ \E path \in FileMoveFrom \cup FileMoveTo : Within(MaxFileMoveSteps) /\ ReadDuringMove(path)
  \/ Within(MaxFileMoveSteps) /\ Crash

SpecMoveSteps == InitMove /\ [][NextMoveSteps]_vars

\* the request in flight moves one file
MovesOneFile(p) ==
  /\ p.req.op = "move"
  /\ IF mode = "local" THEN IsFile(fs, p.src) /\ ~pathExists(fs, p.dst)
     ELSE p.type = "file"

\* the bytes at the path the request moves from, and at the path it moves to
ContentAt(f, b, p) ==
  IF mode = "local"
    THEN << IF IsFile(f, p.src) THEN << f[Follow(f, p.src).p].c >> ELSE <<>>,
            IF IsFile(f, p.dst) THEN << f[Follow(f, p.dst).p].c >> ELSE <<>> >>
    ELSE << IF toS3Key(Session.rootReal, p.src) \in DOMAIN b
              THEN << b[toS3Key(Session.rootReal, p.src)].c >> ELSE <<>>,
            IF toS3Key(Session.rootReal, p.dst) \in DOMAIN b
              THEN << b[toS3Key(Session.rootReal, p.dst)].c >> ELSE <<>> >>

\* C29: whatever step is taken while a move of one file is in flight, the
\* step that stops the server included, the file's bytes are afterwards at
\* exactly one of the two paths, the one it moves from or the one it moves to
C29_Counterexample ==
  [][ \A p \in inflight :
        MovesOneFile(p) =>
          \E c \in { ContentAt(fs, s3, p)[1] } \cup { ContentAt(fs, s3, p)[2] } :
            c # <<>> /\ ContentAt(fs', s3', p) \in { <<c, <<>> >>, << <<>>, c>> } ]_vars

(***************************************************************************)
(* Share creations that overlap.  A handler gives way to the other         *)
(* requests where it awaits the write of the share file: in                *)
(* removeSharesForPath when it removed a record, in findShareForPath when  *)
(* it gave a record its root.  It goes on to SHARE_MAP.set with the        *)
(* registry as it is by then.                                              *)
(***************************************************************************)
\* POST /api/share up to the first `await saveShareStore()`; a request that
\* meets none is served in one go
ShareCreateBegun(rootReal, path, force) ==
  LET ss == SessionOf(rootReal)
      resolved == ShareTarget(fs, s3, ss, path)
      valid == path # <<>> /\ resolved.ok /\ resolved.type = "file"
      found == IF force
                 THEN [shares |-> removeSharesForPath(shares, resolved.normalized, rootReal),
                       match |-> NoShare]
                 ELSE findShareForPath(shares, resolved.normalized, rootReal)
  IN IF ~valid \/ found.shares = shares
       THEN ShareCreateReq(rootReal, path, force)
       ELSE /\ shares' = found.shares
            /\ inflight' = inflight \cup
                 { [req |-> [op |-> "share_create", path |-> path, force |-> force,
                             rootReal |-> rootReal],
                    normalized |-> resolved.normalized, match |-> found.match,
                    rid |-> steps] }
            /\ UNCHANGED <<mode, fs, s3, mpu, resp, nextId, sent, input, role, snap>>

\* POST /api/share after that await: the answer with the record found, or
\* randomUUID, storeShare and the answer
ShareCreateResumed(p) ==
  /\ p.req.op = "share_create"
  /\ IF p.match # NoShare
       THEN /\ resp' = p.req @@ [code |-> 200, token |-> p.match.token]
            /\ UNCHANGED <<shares, nextId>>
       ELSE /\ shares' = storeShare(shares, ShareRecord(Uuid(nextId + 1), p.normalized,
                                                        p.req.rootReal, steps))
            /\ resp' = p.req @@ [code |-> 200, token |-> Uuid(nextId + 1)]
            /\ nextId' = nextId + 1
  /\ inflight' = inflight \ {p}
  /\ UNCHANGED <<mode, fs, s3, mpu, sent, input, role, snap>>

\* most steps of one behaviour of the overlapping share specification
MaxShareRaceSteps == 4
\* most share creations waiting at a time
MaxSharing == 2

ShareRacePaths == { <<SEP>> \o FILE_X, FILE_X, <<SEP, "a">>, <<SEP, "n">> }

InitShareRace ==
  /\ mode \in {"local", "s3"}
  /\ fs = IF mode = "local" THEN ShareFs ELSE BaseFs
  /\ s3 = IF mode = "s3" THEN ShareBucket ELSE <<>>
  /\ mpu = <<>>
  /\ inflight = {}
  /\ resp = NoResp
  /\ nextId = 0
  /\ sent = <<>>
  /\ steps = 0
  /\ input = <<>>
  /\ role = "read-write"
  /\ shares \in { loadShareStore(<<>>, data) : data \in { <<>>, <<StoredItem(<<"8">>, -2)>> } }
  /\ snap = <<>>

NextShareRace ==
  \/ \E rootReal \in ShareRoots, path \in ShareRacePaths, force \in BOOLEAN :
       Within(MaxShareRaceSteps) /\ Room(MaxSharing) /\ ShareCreateBegun(rootReal, path, force)
  \/ \E p \in inflight : Within(MaxShareRaceSteps) /\ ShareCreateResumed(p)
  \/ \E token \in ShareTokens : Within(MaxShareRaceSteps) /\ ShareResolveReq(token)

SpecShareRace == InitShareRace /\ [][NextShareRace]_vars

\* what GET /api/share/:token answers for the token now
Resolved(token) == shareResolve(fs, s3, shares, token).resp

\* C30: at every moment, however share creations for a path overlap, no two
\* tokens resolve to the same path under the same root
C30_Counterexample ==
  \A i, j \in DOMAIN shares :
    (/\ Resolved(shares[i].token).code = 200
     /\ Resolved(shares[j].token).code = 200
     /\ Resolved(shares[i].token).path = Resolved(shares[j].token).path
     /\ Resolved(shares[i].token).rootReal = Resolved(shares[j].token).rootReal)
      => shares[i].token = shares[j].token

(***************************************************************************)
(* The share file.  Every change of the registry is followed by            *)
(* saveShareStore, which writes the registry's records, one for each root  *)
(* and path, and which catches and logs a write that fails.  A restart     *)
(* loads the registry from the file.                                       *)
(***************************************************************************)
SHARE_STORE_PATH == << <<"s", "J">> >>

\* the item JSON.stringify writes for a record, and the file of the items
StoredRecord(r) == [k |-> "share"] @@ r
ShareFileNode(items) == JsonNode([k |-> "shares", items |-> items])

\* saveShareStore: the records it writes, the newest of each root and path at
\* the place of the first
RECURSIVE DedupedRecords(_, _)
DedupedRecords(sh, acc) ==
  IF sh = <<>> THEN acc
  ELSE LET r == Head(sh)
           same == { i \in DOMAIN acc : acc[i].rootReal = r.rootReal /\ acc[i].path = r.path }
       IN IF same = {} THEN DedupedRecords(Tail(sh), Append(acc, r))
          ELSE DedupedRecords(Tail(sh),
                 [i \in DOMAIN acc |-> IF i \in same /\ r.createdAt > acc[i].createdAt
                                         THEN r ELSE acc[i]])

\* saveShareStore: the tree after it; a write that fails leaves the file
saveShareStore(f, sh, writes) ==
  IF ~writes THEN f
  ELSE (SHARE_STORE_PATH :>
          ShareFileNode([i \in DOMAIN DedupedRecords(sh, <<>>) |->
                           StoredRecord(DedupedRecords(sh, <<>>)[i])])) @@ f

\* the items of the share file
StoredItems(f) ==
  IF SHARE_STORE_PATH \in DOMAIN f THEN f[SHARE_STORE_PATH].j.items ELSE <<>>

\* POST /api/share with its writes of the share file
ShareCreateSaved(rootReal, path, force, writes) ==
  /\ \E out \in { shareCreate(fs, s3, shares, SessionOf(rootReal), path, force,
                              Uuid(nextId + 1), steps) } :
       /\ shares' = out.shares
       /\ resp' = out.resp
       /\ nextId' = IF out.resp.code = 200 /\ out.resp.token = Uuid(nextId + 1)
                      THEN nextId + 1 ELSE nextId
       /\ fs' = IF out.shares = shares THEN fs ELSE saveShareStore(fs, out.shares, writes)
  /\ UNCHANGED <<mode, s3, mpu, inflight, sent, input, role, snap>>

\* the process stops and starts again: loadShareStore
Restart ==
  /\ \E loaded \in { loadShareStore(<<>>, StoredItems(fs)) } :
       /\ shares' = loaded
       /\ fs' = IF \E i \in DOMAIN loaded : loaded[i].rootReal = <<>>
                  THEN saveShareStore(fs, loaded, TRUE) ELSE fs
  /\ resp' = [op |-> "restart"]
  /\ inflight' = {}
  /\ UNCHANGED <<mode, s3, mpu, nextId, sent, input, role, snap>>

\* most steps of one behaviour of the share file specification
MaxPersistSteps == 3

SharePersistPaths == { <<SEP>> \o FILE_X, FILE_X, <<SEP, "n">> }

InitSharePersist ==
  /\ mode \in {"local", "s3"}
  /\ \E data \in { <<>>, <<StoredItem(<<"8">>, -2)>> } :
       /\ fs = (SHARE_STORE_PATH :> ShareFileNode(data))
                 @@ (IF mode = "local" THEN ShareFs ELSE BaseFs)
       /\ shares = loadShareStore(<<>>, data)
  /\ s3 = IF mode = "s3" THEN ShareBucket ELSE <<>>
  /\ mpu = <<>>
  /\ inflight = {}
  /\ resp = NoResp
  /\ nextId = 0
  /\ sent = <<>>
  /\ steps = 0
  /\ input = <<>>
  /\ role = "read-write"
  /\ snap = <<>>

NextSharePersist ==
  \/ \E rootReal \in ShareRoots, path \in SharePersistPaths, force \in BOOLEAN, writes \in BOOLEAN :
       Within(MaxPersistSteps) /\ ShareCreateSaved(rootReal, path, force, writes)
  \/ \E token \in ShareTokens : Within(MaxPersistSteps) /\ ShareResolveReq(token)
  \/ Within(MaxPersistSteps) /\ Restart

SpecSharePersist == InitSharePersist /\ [][NextSharePersist]_vars

\* the share file holds a record of the token
Persisted(f, token) == \E i \in DOMAIN StoredItems(f) : StoredItems(f)[i].token = token

\* C31: when a share creation has answered with a token the share file holds
\* that token's record, and every token that resolves before a restart
\* resolves after it
C31_Counterexample ==
  [][ /\ (steps' = steps + 1 /\ ShareCreated(resp') /\ resp'.op = "share_create")
         => Persisted(fs', resp'.token)
      /\ (steps' = steps + 1 /\ resp'.op = "restart")
         => \A i \in DOMAIN shares :
              shareResolve(fs, s3, shares, shares[i].token).resp.code = 200
                => shareResolve(fs', s3', shares', shares[i].token).resp.code = 200 ]_vars

(***************************************************************************)
(* The archive download.  A response tells whether the archiver was        *)
(* started (spawned), on which relative paths (cmd), and the files whose   *)
(* bytes it packed (body).                                                 *)
(***************************************************************************)
ToLowerCase(word) ==
  IF word = "ZIP" THEN "zip" ELSE IF word = "TGZ" THEN "tgz" ELSE word

\* the format of the archive, "" when the parameter is absent and null when
\* it names no format
archiveFormat(formatParam) ==
  LET formatRaw == IF formatParam = "" THEN "zip" ELSE ToLowerCase(formatParam) IN
  IF formatRaw = "zip" THEN "zip"
  ELSE IF formatRaw \in {"targz", "tar.gz", "tgz"} THEN "targz"
  ELSE "null"

NotStarted(req, code) ==
  req @@ [code |-> code, spawned |-> FALSE, cmd |-> <<>>, body |-> {}, store |-> FALSE]

\* the default of ARCHIVE_LARGE_MB, 100 MB, in bytes
ARCHIVE_LARGE_BYTES == 104857600

\* the members of a set one after the other, in the order the directory or
\* the bucket hands them over
RECURSIVE InSomeOrder(_)
InSomeOrder(S) ==
  IF S = {} THEN <<>> ELSE
  Bind(CHOOSE x \in S : TRUE, LAMBDA x : <<x>> \o InSomeOrder(S \ {x}))

\* the while loop of sumPathBytes: stack.pop() takes the last of the stack
RECURSIVE sumPathBytesLoop(_, _, _, _)
sumPathBytesLoop(f, stack, total, limit) ==
  IF stack = <<>> THEN total ELSE
  Bind(stack[Len(stack)], LAMBDA current :
  Bind(SubSeq(stack, 1, Len(stack) - 1), LAMBDA rest :
  IF current \notin DOMAIN f THEN sumPathBytesLoop(f, rest, total, limit)
  ELSE IF f[current].t = "link" THEN sumPathBytesLoop(f, rest, total, limit)
  ELSE IF f[current].t = "file"
    THEN IF total + StatSize(f[current]) >= limit THEN total + StatSize(f[current])
         ELSE sumPathBytesLoop(f, rest, total + StatSize(f[current]), limit)
  ELSE IF total >= limit THEN total
  ELSE sumPathBytesLoop(f, rest \o InSomeOrder({ q \in Children(f, current) : f[q].t # "link" }),
                        total, limit)))

sumPathBytes(f, root, limit) ==
  IF limit <= 0 THEN 0 ELSE sumPathBytesLoop(f, <<root>>, 0, limit)

RECURSIVE getArchiveTotalBytesLoop(_, _, _, _)
getArchiveTotalBytesLoop(f, paths, total, limit) ==
  IF paths = <<>> \/ total >= limit THEN total
  ELSE getArchiveTotalBytesLoop(f, Tail(paths),
                                total + sumPathBytes(f, Head(paths), limit - total), limit)

getArchiveTotalBytes(f, paths, limit) ==
  IF limit <= 0 THEN 0 ELSE getArchiveTotalBytesLoop(f, paths, 0, limit)

\* the loop of s3GetArchiveTotalBytes over the objects of a directory
RECURSIVE s3SumObjects(_, _, _)
s3SumObjects(b, objects, total) ==
  IF objects = <<>> THEN total
  ELSE IF EndsWith(Head(objects), <<SEP>>) THEN s3SumObjects(b, Tail(objects), total)
  ELSE IF total + StatSize(b[Head(objects)]) >= ARCHIVE_LARGE_BYTES
    THEN total + StatSize(b[Head(objects)])
  ELSE s3SumObjects(b, Tail(objects), total + StatSize(b[Head(objects)]))

RECURSIVE s3GetArchiveTotalBytesLoop(_, _, _, _)
s3GetArchiveTotalBytesLoop(b, rootPrefix, items, total) ==
  IF items = <<>> \/ total >= ARCHIVE_LARGE_BYTES THEN total
  ELSE IF Head(items).type = "file"
    THEN s3GetArchiveTotalBytesLoop(b, rootPrefix, Tail(items),
           total + getS3PathInfo(b, rootPrefix, Head(items).normalized).size)
  ELSE s3GetArchiveTotalBytesLoop(b, rootPrefix, Tail(items),
         s3SumObjects(b, InSomeOrder(listS3Objects(b, toS3Prefix(rootPrefix,
                                                                 Head(items).normalized))),
                      total))

s3GetArchiveTotalBytes(b, rootPrefix, items) == s3GetArchiveTotalBytesLoop(b, rootPrefix, items, 0)

\* `const useStore = format === "zip" && totalBytes >= ARCHIVE_LARGE_BYTES`,
\* with totalBytes 0 for tar.gz
useStore(format, totalBytes) == format = "zip" /\ totalBytes >= ARCHIVE_LARGE_BYTES

\* the loop without its test for the root
resolveArchiveItems_RootAllowed(f, rootReal, requested) ==
  LET items == [i \in DOMAIN requested |-> resolveSafePath(f, requested[i], rootReal)]
      bad == { i \in DOMAIN requested : ~items[i].ok }
  IN
  IF bad = {} THEN [ok |-> TRUE, items |-> items] ELSE [ok |-> FALSE, code |-> 404]

\* the loop over the requested paths of GET /api/archive, which answers at
\* the first path that does not resolve or is the root
resolveArchiveItems(f, rootReal, requested) ==
  LET items == [i \in DOMAIN requested |-> resolveSafePath(f, requested[i], rootReal)]
      bad == { i \in DOMAIN requested : ~items[i].ok \/ items[i].normalized = <<SEP>> }
      first == CHOOSE i \in bad : \A k \in bad : i <= k
  IN
  IF bad = {} THEN [ok |-> TRUE, items |-> items]
  ELSE [ok |-> FALSE, code |-> IF ~items[first].ok THEN 404 ELSE 400]

\* zip -r -y and tar pack the files at and below the paths, and store a
\* symbolic link as a link
PackedFiles(f, fullPaths) ==
  { [at |-> q, c |-> f[q].c] :
      q \in { q \in UNION { Subtree(f, p) : p \in fullPaths } : f[q].t = "file" } }

\* GET /api/archive (local)
localArchive(f, ss, requested, formatParam) ==
  LET req == [op |-> "archive", paths |-> requested, format |-> formatParam] IN
  IF requested = <<>> THEN Reply(f, NotStarted(req, 400))
  ELSE IF archiveFormat(formatParam) = "null" THEN Reply(f, NotStarted(req, 400)) ELSE
  Bind(resolveArchiveItems(f, ss.rootReal, requested), LAMBDA resolved :
  IF ~resolved.ok THEN Reply(f, NotStarted(req, resolved.code))
  ELSE Reply(f, req @@ [code |-> 200, spawned |-> TRUE,
         cmd |-> [i \in DOMAIN requested |->
                    SubSeq(resolved.items[i].fullPath, Len(ss.rootReal) + 1,
                           Len(resolved.items[i].fullPath))],
         body |-> PackedFiles(f, { resolved.items[i].fullPath : i \in DOMAIN requested }),
         store |-> useStore(archiveFormat(formatParam),
                            IF archiveFormat(formatParam) = "zip"
                              THEN getArchiveTotalBytes(f,
                                     [i \in DOMAIN requested |-> resolved.items[i].fullPath],
                                     ARCHIVE_LARGE_BYTES)
                              ELSE 0)]))

\* the loop over the requested paths of handleS3Archive
resolveS3ArchiveItems(b, rootPrefix, requested) ==
  LET items == [i \in DOMAIN requested |-> resolveSafeS3Path(requested[i], rootPrefix)]
      TypeOf(i) == getS3PathInfo(b, rootPrefix, items[i].normalized).type
      bad == { i \in DOMAIN requested :
                 ~items[i].ok \/ items[i].normalized = <<SEP>> \/ TypeOf(i) = "none" }
      first == CHOOSE i \in bad : \A k \in bad : i <= k
  IN
  IF bad = {} THEN [ok |-> TRUE, items |-> [i \in DOMAIN requested |->
                                              [normalized |-> items[i].normalized,
                                               type |-> TypeOf(i)]]]
  ELSE [ok |-> FALSE,
        code |-> IF items[first].ok /\ items[first].normalized = <<SEP>> THEN 400 ELSE 404]

\* the objects handleS3Archive downloads below its temporary directory
\* before it starts the archiver there
StagedObjects(b, rootPrefix, items) ==
  UNION { IF items[i].type = "file" THEN { toS3Key(rootPrefix, items[i].normalized) }
          ELSE { k \in listS3Objects(b, toS3Prefix(rootPrefix, items[i].normalized)) :
                   ~EndsWith(k, <<SEP>>) } : i \in DOMAIN items }

handleS3Archive(b, ss, requested, formatParam) ==
  LET req == [op |-> "archive", paths |-> requested, format |-> formatParam] IN
  IF requested = <<>> THEN ReplyS3(b, NotStarted(req, 400))
  ELSE IF archiveFormat(formatParam) = "null" THEN ReplyS3(b, NotStarted(req, 400)) ELSE
  Bind(resolveS3ArchiveItems(b, ss.rootReal, requested), LAMBDA resolved :
  IF ~resolved.ok THEN ReplyS3(b, NotStarted(req, resolved.code))
  ELSE ReplyS3(b, req @@ [code |-> 200, spawned |-> TRUE,
         cmd |-> [i \in DOMAIN requested |-> Tail(resolved.items[i].normalized)],
         body |-> { [at |-> k, c |-> b[k].c] :
                      k \in StagedObjects(b, ss.rootReal, resolved.items) },
         store |-> useStore(archiveFormat(formatParam),
                            IF archiveFormat(formatParam) = "zip"
                              THEN s3GetArchiveTotalBytes(b, ss.rootReal, resolved.items)
                              ELSE 0)]))

ArchiveReq(requested, formatParam) ==
  /\ Serve(localArchive(fs, Session, requested, formatParam),
           handleS3Archive(s3, Session, requested, formatParam))
  /\ UNCHANGED <<mode, mpu, inflight, nextId, sent, input, role, shares, snap>>

ArchivePaths ==
  { <<SEP, "a", SEP, DOT, DOT>>, <<SEP, "a">>, <<SEP, "l">>, <<SEP>> \o TRASH \o <<SEP, "a">>,
    <<SEP, "n">> }

\* most paths one archive request names
MaxArchivePaths == 2

ArchiveRequests == UNION { [1..n -> ArchivePaths] : n \in 0..MaxArchivePaths }

ArchiveFormats == { "ZIP", "rar" }

\* most requests one behaviour of the archive specification serves
MaxArchiveSteps == 2

ArchiveBucket == FileBucket @@ (S3_ROOT \o TRASH \o <<SEP, "a">> :> S3Object(<<2>>))

\* the root holds a trash directory, and may hold a link that leads out
InitArchive ==
  /\ mode \in {"local", "s3"}
  /\ fs \in IF mode = "local" THEN { g @@ TrashFs : g \in FileFsSet } ELSE { BaseFs }
  /\ s3 = IF mode = "s3" THEN ArchiveBucket ELSE <<>>
  /\ mpu = <<>>
  /\ inflight = {}
  /\ resp = NoResp
  /\ nextId = 0
  /\ sent = <<>>
  /\ steps = 0
  /\ input = <<>>
  /\ role = "read-write"
  /\ shares = <<>>
  /\ snap = <<>>

NextArchive ==
  \/ Within(MaxArchiveSteps) /\ TrashReq(<<SEP, "a">>)
  \/ \E requested \in ArchiveRequests, formatParam \in ArchiveFormats :
       Within(MaxArchiveSteps) /\ ArchiveReq(requested, formatParam)

SpecArchive == InitArchive /\ [][NextArchive]_vars

\* the requested path names nothing, leads out of the root, is /.trash or
\* lies below it, or is the root
Unfit(f, b, v) ==
  LET normalized == normalizeRequestPath(v) IN
  \/ normalized = <<SEP>>
  \/ normalized = <<SEP>> \o TRASH
  \/ StartsWith(normalized, <<SEP>> \o TRASH \o <<SEP>>)
  \/ mode = "local" /\ (Opens(f, v).r # "ok" \/ ~IsPrefix(ROOT_REAL, Opens(f, v).p))
  \/ mode = "s3" /\ \A k \in DOMAIN b :
        /\ k # S3_ROOT \o Tail(normalized)
        /\ ~IsPrefix(S3_ROOT \o Tail(normalized) \o <<SEP>>, k)

\* C23: an archive request that names one path that is missing, leads out of
\* the root, lies at or below /.trash or is the root is answered with an
\* error, starts no archiver and sends no archive bytes, whatever its other
\* paths are
C23_ArchiveValidatesEveryPath ==
  [][ (resp'.op = "archive" /\ \E i \in DOMAIN resp'.paths : Unfit(fs, s3, resp'.paths[i]))
        => /\ resp'.code \in 400..499
           /\ ~resp'.spawned /\ resp'.cmd = <<>> /\ resp'.body = {}
           /\ fs' = fs /\ s3' = s3 ]_vars

\* a request of two paths is refused for its second path alone
C23_Witness ==
  /\ resp.op = "archive" /\ Len(resp.paths) = 2 /\ resp.code = 404
  /\ ~Unfit(fs, s3, resp.paths[1]) /\ Unfit(fs, s3, resp.paths[2])
  /\ ~resp.spawned

(***************************************************************************)
(* The S3 archive step by step.  The handler makes a scratch directory,    *)
(* downloads the selected objects into it and starts the archiver there;   *)
(* the archiver reads the files one by one while its output goes to the    *)
(* client.  The handler returns the output stream as the response body,    *)
(* and its finally block runs as it returns.                               *)
(***************************************************************************)
\* fs.mkdtemp(path.join(os.tmpdir(), "bro-fm-s3-archive-")): the n-th name
ScratchRoot(n) == Append(TMPDIR, <<"z", Digits[n]>>)

\* s3DownloadToFile for every object of the set
RECURSIVE s3DownloadAll(_, _, _, _)
s3DownloadAll(f, b, tempRoot, keys) ==
  IF keys = {} THEN f ELSE
  Bind(CHOOSE k \in keys : TRUE, LAMBDA key :
  Bind(pathJoin(tempRoot, SubSeq(key, Len(S3_ROOT) + 1, Len(key))), LAMBDA destPath :
  s3DownloadAll(WriteThrough(MkdirP(f, Parent(destPath), 1).fs, destPath,
                             FileNode(b[key].c)).fs,
                b, tempRoot, keys \ {key})))

\* the files below the scratch directory
ScratchFiles(f, tempRoot) == { q \in Subtree(f, tempRoot) : f[q].t = "file" }

\* handleS3Archive up to Bun.spawn; outcome tells whether a download threw
\* or the archiver could not be started
S3ArchiveStarted(requested, formatParam, outcome) ==
  /\ mode = "s3"
  /\ inflight = {}
  /\ \E out \in { handleS3Archive(s3, Session, requested, formatParam) } :
       IF out.resp.code # 200
         THEN resp' = out.resp /\ UNCHANGED <<fs, inflight, nextId>>
       ELSE IF outcome # "spawned"
         THEN /\ resp' = NotStarted([op |-> "archive", paths |-> requested,
                                     format |-> formatParam], 500)
              /\ fs' = RmRecursive((ScratchRoot(nextId + 1) :> DirNode) @@ fs,
                                   ScratchRoot(nextId + 1))
              /\ nextId' = nextId + 1
              /\ UNCHANGED inflight
       ELSE \E staged \in { s3DownloadAll((ScratchRoot(nextId + 1) :> DirNode) @@ fs, s3,
                                          ScratchRoot(nextId + 1),
                                          { e.at : e \in out.resp.body }) } :
              /\ fs' = staged
              /\ inflight' = { [op |-> "archive", rid |-> steps, req |-> out.resp,
                                 tempRoot |-> ScratchRoot(nextId + 1),
                                 left |-> ScratchFiles(staged, ScratchRoot(nextId + 1)),
                                 packed |-> {}, returned |-> FALSE, exited |-> FALSE] }
              /\ nextId' = nextId + 1
              /\ UNCHANGED resp
  /\ UNCHANGED <<mode, s3, mpu, sent, input, role, shares, snap>>

\* the archiver reads one of the files it was started on
ArchiverReads(r) ==
  /\ r.op = "archive" /\ ~r.exited
  /\ \E q \in r.left :
       inflight' = (inflight \ {r}) \cup
         { [r EXCEPT !.left = r.left \ {q},
                     !.packed = IF q \in DOMAIN fs
                                  THEN r.packed \cup { [at |-> q, c |-> fs[q].c] }
                                  ELSE r.packed] }
  /\ UNCHANGED <<mode, fs, s3, mpu, resp, nextId, sent, input, role, shares, snap>>

\* the response of a finished archive request: the files the archiver packed
ArchiveSent(r) == [op |-> "archive", paths |-> r.req.paths, format |-> r.req.format,
                   code |-> 200, packed |-> r.packed]

\* the archiver has read all its files and exits
ArchiverExits(r) ==
  /\ r.op = "archive" /\ ~r.exited /\ r.left = {}
  /\ IF r.returned
       THEN inflight' = inflight \ {r} /\ resp' = ArchiveSent(r)
       ELSE inflight' = (inflight \ {r}) \cup { [r EXCEPT !.exited = TRUE] } /\ UNCHANGED resp
  /\ UNCHANGED <<mode, fs, s3, mpu, nextId, sent, input, role, shares, snap>>

\* `return c.body(process.stdout)` and `finally { await fs.rm(tempRoot, ...) }`
S3ArchiveReturns(r) ==
  /\ r.op = "archive" /\ ~r.returned
  /\ fs' = RmRecursive(fs, r.tempRoot)
  /\ IF r.exited
       THEN inflight' = inflight \ {r} /\ resp' = ArchiveSent(r)
       ELSE inflight' = (inflight \ {r}) \cup { [r EXCEPT !.returned = TRUE] } /\ UNCHANGED resp
  /\ UNCHANGED <<mode, s3, mpu, nextId, sent, input, role, shares, snap>>

\* most steps of one behaviour of the stepwise archive specification
MaxScratchSteps == 6

ScratchPaths == { <<SEP, "a">>, <<SEP>> \o FILE_X, <<SEP, "n">> }
ScratchRequests == UNION { [1..n -> ScratchPaths] : n \in 0..MaxArchivePaths }

InitScratch == InitArchive /\ mode = "s3"

NextScratch ==
  \/ \E requested \in ScratchRequests, formatParam \in ArchiveFormats,
         outcome \in {"spawned", "download threw", "no archiver"} :
       Within(MaxScratchSteps) /\ S3ArchiveStarted(requested, formatParam, outcome)
  \/ \E r \in inflight : Within(MaxScratchSteps) /\ ArchiverReads(r)
  \/ \E r \in inflight : Within(MaxScratchSteps) /\ ArchiverExits(r)
  \/ \E r \in inflight : Within(MaxScratchSteps) /\ S3ArchiveReturns(r)

SpecScratch == InitScratch /\ [][NextScratch]_vars

\* the scratch directories there are
ScratchRoots(f) == { q \in Children(f, TMPDIR) : Last(q)[1] = "z" }

\* C33: while the archiver of an S3 archive request runs its scratch
\* directory exists, and when no archive request is being served no scratch
\* directory is left
C33_Counterexample ==
  /\ \A r \in inflight : (r.op = "archive" /\ ~r.exited) => r.tempRoot \in DOMAIN fs
  /\ inflight = {} => ScratchRoots(fs) = {}

(***************************************************************************)
(* The compression of an archive.  The root holds the directory a with the *)
(* file a/a and the file f.x, each of 40 or 60 MB, and locally a link l to *)
(* a; the requests name one or two paths, the same path twice too.         *)
(***************************************************************************)
ArchiveFileSizes == { 40 * 1024 * 1024, 60 * 1024 * 1024 }

SizedFs(sizeA, sizeX) ==
  (ROOT_REAL \o << <<"a">>, <<"a">> >> :> (FileNode(<<1>>) @@ [size |-> sizeA]))
  @@ (Append(ROOT_REAL, FILE_X) :> (FileNode(<<3>>) @@ [size |-> sizeX]))
  @@ (Append(ROOT_REAL, <<"l">>) :> LinkNode(Append(ROOT_REAL, <<"a">>)))
  @@ TreeFs

SizedBucket(sizeA, sizeX) ==
  (S3_ROOT \o <<"a", SEP, "a">> :> (S3Object(<<1>>) @@ [size |-> sizeA]))
  @@ (S3_ROOT \o FILE_X :> (S3Object(<<3>>) @@ [size |-> sizeX]))

SizedPaths == { <<SEP, "a">>, <<SEP, "a", SEP, "a">>, <<SEP>> \o FILE_X, <<SEP, "l">>, <<SEP, "n">> }
SizedRequests == UNION { [1..n -> SizedPaths] : n \in 1..MaxArchivePaths }
SizedFormats == { "zip", "", "tgz" }

\* most requests one behaviour of the compression specification serves
MaxSizedSteps == 1

InitSized ==
  /\ mode \in {"local", "s3"}
  /\ \E sizeA \in ArchiveFileSizes, sizeX \in ArchiveFileSizes :
       /\ fs = IF mode = "local" THEN SizedFs(sizeA, sizeX) ELSE BaseFs
       /\ s3 = IF mode = "s3" THEN SizedBucket(sizeA, sizeX) ELSE <<>>
  /\ mpu = <<>>
  /\ inflight = {}
  /\ resp = NoResp
  /\ nextId = 0
  /\ sent = <<>>
  /\ steps = 0
  /\ input = <<>>
  /\ role = "read-write"
  /\ shares = <<>>
  /\ snap = <<>>

NextSized ==
  \E requested \in SizedRequests, formatParam \in SizedFormats :
    Within(MaxSizedSteps) /\ ArchiveReq(requested, formatParam)

SpecSized == InitSized /\ [][NextSized]_vars

\* the sum of the sizes of the files or objects of a set
RECURSIVE SumSizes(_)
SumSizes(S) ==
  IF S = {} THEN 0 ELSE
  Bind(CHOOSE q \in S : TRUE, LAMBDA q :
  (IF mode = "local" THEN StatSize(fs[q]) ELSE StatSize(s3[q])) + SumSizes(S \ {q}))

\* C34: an archive is made in store mode exactly when it is a zip archive
\* and the sizes of the regular files of the selection add up to the cutoff
\* or more; a tar.gz archive never is
C34_Counterexample ==
  [][ (steps' = steps + 1 /\ resp'.op = "archive" /\ resp'.code = 200)
        => resp'.store = (/\ archiveFormat(resp'.format) = "zip"
                          /\ SumSizes({ e.at : e \in resp'.body }) >= ARCHIVE_LARGE_BYTES) ]_vars

(***************************************************************************)
(* The order of a listing.  readdir hands the entries of a local directory *)
(* over in an order of its own; ListObjectsV2 hands the common prefixes    *)
(* and then the keys over, each in the order of their bytes.  The handler  *)
(* sorts what it was handed; resp.sorted is the sorted listing.            *)
(***************************************************************************)
\* the code of a character, for the letters the listed names are made of
CharCode(ch) ==
  IF ch = "A" THEN 65 ELSE IF ch = "B" THEN 66
  ELSE IF ch = "a" THEN 97 ELSE IF ch = "b" THEN 98 ELSE 46

\* the letter without its case, which is all that a comparison of
\* sensitivity "base" looks at
BaseLetter(ch) == IF ch = "A" THEN "a" ELSE IF ch = "B" THEN "b" ELSE ch

\* -1, 0 or 1 as the codes of x come before, equal or come after those of y
RECURSIVE CompareCodes(_, _)
CompareCodes(x, y) ==
  IF x = <<>> /\ y = <<>> THEN 0
  ELSE IF x = <<>> THEN -1
  ELSE IF y = <<>> THEN 1
  ELSE IF Head(x) < Head(y) THEN -1
  ELSE IF Head(x) > Head(y) THEN 1
  ELSE CompareCodes(Tail(x), Tail(y))

RawBytes(name) == [i \in DOMAIN name |-> CharCode(name[i])]

\* a.localeCompare(b, undefined, { sensitivity: "base" })
localeCompareBase(a, b) ==
  CompareCodes([i \in DOMAIN a |-> CharCode(BaseLetter(a[i]))],
               [i \in DOMAIN b |-> CharCode(BaseLetter(b[i]))])

\* the comparator of the two list handlers
compareEntries(a, b) ==
  IF a.type # b.type THEN (IF a.type = "dir" THEN -1 ELSE 1)
  ELSE localeCompareBase(a.name, b.name)

\* Array.prototype.sort is stable: an entry goes before the first entry
\* that compares greater, and after those that compare equal
InsertSorted(sorted, e) ==
  LET later == { i \in DOMAIN sorted : compareEntries(e, sorted[i]) < 0 }
      at == IF later = {} THEN Len(sorted) + 1 ELSE CHOOSE i \in later : \A k \in later : i <= k
  IN SubSeq(sorted, 1, at - 1) \o <<e>> \o SubSeq(sorted, at, Len(sorted))

RECURSIVE SortEntries(_)
SortEntries(entries) ==
  IF entries = <<>> THEN <<>>
  ELSE InsertSorted(SortEntries(SubSeq(entries, 1, Len(entries) - 1)), entries[Len(entries)])

Enumerations(S) ==
  { q \in [1..Cardinality(S) -> S] : \A i, j \in 1..Cardinality(S) : q[i] = q[j] => i = j }

InByteOrder(S) ==
  CHOOSE q \in Enumerations(S) :
    \A i, j \in DOMAIN q : i < j => CompareCodes(RawBytes(q[i].name), RawBytes(q[j].name)) < 0

\* the orders in which the backing store may hand the entries over
EnumerationsOf(entries) ==
  IF mode = "local" THEN Enumerations(entries)
  ELSE { InByteOrder({ e \in entries : e.type = "dir" })
           \o InByteOrder({ e \in entries : e.type = "file" }) }

ListSortedReq(path, enumerated) ==
  /\ \E out \in { IF mode = "local" THEN localList(fs, Session, path).resp
                   ELSE handleS3List(s3, Session, path).resp } :
        /\ out.code = 200 => enumerated \in EnumerationsOf(out.entries)
        /\ out.code # 200 => enumerated = <<>>
        /\ resp' = out @@ [sorted |-> SortEntries(enumerated)]
  /\ UNCHANGED <<mode, fs, s3, mpu, inflight, nextId, sent, input, role, shares, snap>>

ListNames == { <<"A">>, <<"a">>, <<"b">>, <<"B">> }

ListEntries == [name : ListNames, type : {"dir", "file"}]

\* most entries of a listed directory
MaxListed == 4

ListEnumerations ==
  UNION { { q \in [1..n -> ListEntries] : \A i, j \in 1..n : q[i] = q[j] => i = j } :
            n \in 0..MaxListed }

\* most requests one behaviour of the listing specification serves
MaxListSteps == 4

InitList ==
  /\ mode \in {"local", "s3"}
  /\ fs = BaseFs
  /\ s3 = <<>>
  /\ mpu = <<>>
  /\ inflight = {}
  /\ resp = NoResp
  /\ nextId = 0
  /\ sent = <<>>
  /\ steps = 0
  /\ input = <<>>
  /\ role = "read-write"
  /\ shares = <<>>
  /\ snap = <<>>

NextList ==
  \/ \E name \in ListNames : Within(MaxListSteps) /\ MkdirReq(<<SEP>>, name)
  \/ \E name \in ListNames : Within(MaxListSteps) /\ UploadReq(<<SEP>>, name, FALSE, <<5>>)
  \/ \E enumerated \in ListEnumerations :
       Within(MaxListSteps) /\ ListSortedReq(<<SEP>>, enumerated)

SpecList == InitList /\ [][NextList]_vars

\* the order the listing is to have: directories before files, then the
\* names without their case, then the bytes of the names
GoesBefore(a, b) ==
  \/ a.type = "dir" /\ b.type = "file"
  \/ a.type = b.type /\ localeCompareBase(a.name, b.name) < 0
  \/ /\ a.type = b.type /\ localeCompareBase(a.name, b.name) = 0
     /\ CompareCodes(RawBytes(a.name), RawBytes(b.name)) < 0

\* C24: a listing has its directories before its files and each group in
\* the order of the names without their case, names that differ in case
\* only in the order of their bytes, however the store enumerated them
C24_Counterexample ==
  [][ (resp'.op = "list" /\ resp'.code = 200)
        => \A i, j \in DOMAIN resp'.sorted : i < j => GoesBefore(resp'.sorted[i], resp'.sorted[j]) ]_vars

(***************************************************************************)
(* The normalisation of request paths on its own: every raw path.          *)
(***************************************************************************)
InitNormalize ==
  /\ mode \in {"local", "s3"}
  /\ fs = BaseFs
  /\ s3 = <<>>
  /\ mpu = <<>>
  /\ inflight = {}
  /\ resp = NoResp
  /\ nextId = 0
  /\ sent = <<>>
  /\ steps = 0
  /\ input \in RawPaths
  /\ role = "read-write"
  /\ shares = <<>>
  /\ snap = <<>>

Normalize ==
  /\ resp = NoResp
  /\ resp' = [op |-> "normalize", out |-> normalizeRequestPath(input)]
  /\ UNCHANGED <<mode, fs, s3, mpu, inflight, nextId, sent, steps, input, role, shares, snap>>

NextNormalize == Normalize

SpecNormalize == InitNormalize /\ [][NextNormalize]_vars

\* C25: the normalised form of every raw path starts with the separator, has
\* no segment that is empty, "." or "..", and ends in no separator unless it
\* is "/" itself
C25_Counterexample ==
  resp.op = "normalize" =>
    /\ resp.out # <<>> /\ Head(resp.out) = SEP
    /\ resp.out # <<SEP>> =>
          /\ resp.out[Len(resp.out)] # SEP
          /\ \A i \in DOMAIN Split(Tail(resp.out)) :
                Split(Tail(resp.out))[i] \notin { <<>>, <<DOT>>, DOTDOT }

(***************************************************************************)
(* The resolver on its own: every raw path against every tree.             *)
(***************************************************************************)
InitResolve ==
  /\ mode = "local"
  /\ fs \in ResolveFsSet
  /\ s3 = <<>>
  /\ mpu = <<>>
  /\ inflight = {}
  /\ resp = NoResp
  /\ nextId = 0
  /\ sent = <<>>
  /\ steps = 0
  /\ input \in RawPaths
  /\ role = "read-write"
  /\ shares = <<>>
  /\ snap = <<>>

Resolve ==
  /\ resp = NoResp
  /\ resp' = [op |-> "resolve", res |-> resolveSafePath(fs, input, ROOT_REAL)]
  /\ UNCHANGED <<mode, fs, s3, mpu, inflight, nextId, sent, steps, input, role, shares, snap>>

NextResolve == Resolve

SpecResolve == InitResolve /\ [][NextResolve]_vars

\* C1: in local mode resolveSafePath fails or returns a real path that is the
\* user's root or lies below it (segment by segment), for every raw request
\* path and every tree, symbolic links included.
C1_ResolveStaysInRoot ==
  (resp.op = "resolve" /\ resp.res.ok) =>
    /\ IsPrefix(ROOT_REAL, resp.res.fullPath)
    /\ resp.res.fullPath \in DOMAIN fs
    /\ fs[resp.res.fullPath].t # "link"

\* a path written with backslashes was resolved to a file below the root, in a
\* tree whose link l leads outside the root
C1_Witness ==
  /\ resp.op = "resolve" /\ resp.res.ok
  /\ Includes(input, BSL)
  /\ resp.res.fullPath = ROOT_REAL \o << <<"a">>, <<"a">> >>
  /\ Append(ROOT_REAL, <<"l">>) \in DOMAIN fs
  /\ fs[Append(ROOT_REAL, <<"l">>)].to = OUTSIDE

(***************************************************************************)
(* The client's upload loop (uploadFiles), for one file, from the answer   *)
(* of init on.  Here input holds the loop's local variables, inflight the  *)
(* chunk requests that were sent and are not answered yet, sent how often  *)
(* each part number was sent, and resp the answer received last.  What    *)
(* the server answers is the environment's choice.                         *)
(***************************************************************************)
MAX_CONCURRENCY == 5

\* most parts the file of the client's specification has
MaxClientChunks == 7

RECURSIVE partsFrom(_, _, _)
partsFrom(part, totalChunks, uploadedSet) ==
  IF part > totalChunks THEN <<>>
  ELSE (IF part \in uploadedSet THEN <<>> ELSE <<part>>)
       \o partsFrom(part + 1, totalChunks, uploadedSet)

\* the parts the loop "for (let part = 1; part <= totalChunks; part += 1)"
\* pushes
partsToUpload_All(totalChunks, uploadedSet) == partsFrom(1, totalChunks, {})

partsToUpload(totalChunks, uploadedSet) == partsFrom(1, totalChunks, uploadedSet)

SentCount(counts, part) == IF part \in DOMAIN counts THEN counts[part] ELSE 0

ChunkRequest(part) == [op |-> "putPart", part |-> part]

InitClient ==
  /\ mode = "local"
  /\ fs = BaseFs
  /\ s3 = <<>>
  /\ mpu = <<>>
  /\ inflight = {}
  /\ resp = NoResp
  /\ nextId = 1
  /\ sent = <<>>
  /\ steps = 0
  /\ \E totalChunks \in 1..MaxClientChunks :
       input = [pc |-> "status", totalChunks |-> totalChunks, uploadedSet |-> {},
                parts |-> <<>>, cursor |-> 0, failed |-> FALSE, acked |-> {},
                complete |-> FALSE]
  /\ role = "read-write"
  /\ shares = <<>>
  /\ snap = <<>>

\* the status request is answered, or fails; the parts to upload are listed
\* and min(MAX_CONCURRENCY, partsToUpload.length) workers are started, each
\* of which takes the part at the cursor and sends it before its first await
StatusAnswered(ok, uploadedParts) ==
  /\ input.pc = "status"
  /\ LET uploadedSet == IF ok THEN uploadedParts ELSE {}
         parts == partsToUpload(input.totalChunks, uploadedSet)
         workers == IF Len(parts) < MAX_CONCURRENCY THEN Len(parts) ELSE MAX_CONCURRENCY
     IN /\ input' = [input EXCEPT !.pc = "upload", !.uploadedSet = uploadedSet,
                                  !.parts = parts, !.cursor = workers]
        /\ inflight' = { ChunkRequest(parts[i]) : i \in 1..workers }
        /\ sent' = [part \in { parts[i] : i \in 1..workers } |-> 1]
        /\ resp' = [op |-> "status", ok |-> ok, uploadedParts |-> uploadedParts]
  /\ UNCHANGED <<mode, fs, s3, mpu, nextId, steps, role, shares, snap>>

\* a chunk request is answered: uploadPart returns or throws, and its worker
\* goes round its loop once more, sending the next part or ending
ChunkAnswered(r, ok) ==
  /\ input.pc = "upload"
  /\ r \in inflight
  /\ LET failed == input.failed \/ ~ok
         more == input.cursor < Len(input.parts) /\ ~failed
         part == input.parts[input.cursor + 1]
     IN /\ input' = [input EXCEPT
                       !.failed = failed,
                       !.acked = IF ok THEN @ \cup {r.part} ELSE @,
                       !.cursor = IF more THEN @ + 1 ELSE @]
        /\ inflight' = (inflight \ {r}) \cup (IF more THEN {ChunkRequest(part)} ELSE {})
        /\ sent' = IF more THEN (part :> SentCount(sent, part) + 1) @@ sent ELSE sent
        /\ resp' = [op |-> "putPart", ok |-> ok, part |-> r.part]
  /\ UNCHANGED <<mode, fs, s3, mpu, nextId, steps, role, shares, snap>>

\* every worker has ended: the job ends in error, or complete is requested
WorkersSettled ==
  /\ input.pc = "upload"
  /\ inflight = {}
  /\ input' = IF input.failed
                THEN [input EXCEPT !.pc = "error"]
                ELSE [input EXCEPT !.pc = "completing", !.complete = TRUE]
  /\ UNCHANGED <<mode, fs, s3, mpu, inflight, resp, nextId, sent, steps, role, shares, snap>>

CompleteAnswered(ok) ==
  /\ input.pc = "completing"
  /\ input' = [input EXCEPT !.pc = IF ok THEN "done" ELSE "error"]
  /\ resp' = [op |-> "complete", ok |-> ok]
  /\ UNCHANGED <<mode, fs, s3, mpu, inflight, nextId, sent, steps, role, shares, snap>>

NextClient ==
  \/ \E ok \in BOOLEAN, uploadedParts \in SUBSET (1..(input.totalChunks + 1)) :
       StatusAnswered(ok, uploadedParts)
  \/ \E r \in inflight, ok \in BOOLEAN : ChunkAnswered(r, ok)
  \/ WorkersSettled
  \/ \E ok \in BOOLEAN : CompleteAnswered(ok)

SpecClient == InitClient /\ [][NextClient]_vars

\* C35: the client's loop never has more than 5 chunk requests in flight,
\* sends no part twice and no part that status reported, requests complete
\* only when every part that status did not report was sent once and
\* answered ok, and after a part failed starts no part and does not request
\* complete
C35_ClientLoop ==
  /\ [](/\ Cardinality(inflight) <= 5
        /\ \A part \in DOMAIN sent :
             /\ sent[part] = 1
             /\ part \in 1..input.totalChunks
             /\ part \notin input.uploadedSet
        /\ input.complete =>
             /\ ~input.failed
             /\ \A part \in 1..input.totalChunks :
                  \/ part \in input.uploadedSet /\ part \notin DOMAIN sent
                  \/ part \notin input.uploadedSet /\ part \in DOMAIN sent
                       /\ part \in input.acked)
  /\ [][ input'.failed => (sent' = sent /\ ~input'.complete) ]_vars

\* complete was requested for a file of more parts than may be in flight, of
\* which status had reported some
C35_Witness ==
  /\ input.pc = "completing"
  /\ input.uploadedSet \cap (1..input.totalChunks) # {}
  /\ Len(input.parts) > MAX_CONCURRENCY
  /\ resp.op = "putPart" /\ resp.ok

(***************************************************************************)
(* The share registry of a bucket used without a root prefix               *)
(* (S3_ROOT_PREFIX unset): the user rooted at "/" has the empty prefix as  *)
(* root, the user rooted at "/a" the prefix a/.  Locally the two users are *)
(* rooted at the root and at its directory a.  The registry starts empty.  *)
(***************************************************************************)
RECURSIVE StripLeadingSlashes(_)
StripLeadingSlashes(str) ==
  IF str # <<>> /\ Head(str) = SEP THEN StripLeadingSlashes(Tail(str)) ELSE str

normalizeS3Prefix(value) ==
  Bind(ReplaceBackslash(Trim(value)), LAMBDA prefix :
  IF prefix = <<>> THEN <<>>
  ELSE StripTrailingSlashes(StripLeadingSlashes(prefix)) \o <<SEP>>)

joinS3Prefix(base, extra) ==
  Bind(StripTrailingSlashes(StripLeadingSlashes(Trim(extra))), LAMBDA normalizedExtra :
  IF normalizedExtra = <<>> THEN normalizeS3Prefix(base)
  ELSE normalizeS3Prefix(base) \o normalizedExtra \o <<SEP>>)

\* the rootReal of the session of a user whose root is rootPath, in a
\* deployment whose S3_ROOT_PREFIX is prefix
resolveUserRootS3(prefix, rootPath) ==
  Bind(normalizeRequestPath(rootPath), LAMBDA normalized :
  IF IsTrashPath(normalized) THEN [ok |-> FALSE]
  ELSE [ok |-> TRUE, rootPath |-> normalized,
        rootReal |-> joinS3Prefix(normalizeS3Prefix(prefix),
                                  IF normalized = <<SEP>> THEN <<>> ELSE Tail(normalized))])

UserRootPaths == { <<SEP>>, <<SEP, "a">> }

PrefixRoots ==
  IF mode = "local" THEN { ROOT_REAL, Append(ROOT_REAL, <<"a">>) }
  ELSE { resolveUserRootS3(<<>>, rootPath).rootReal : rootPath \in UserRootPaths }

PrefixBucket ==
  (FILE_X :> S3Object(<<3>>)) @@ (<<"a", SEP>> \o FILE_X :> S3Object(<<2>>))

PrefixPaths == { <<SEP>> \o FILE_X, <<SEP, "a", SEP>> \o FILE_X, <<SEP, "n">> }

\* most requests one behaviour of this specification serves
MaxPrefixSteps == 3

InitPrefix ==
  /\ mode \in {"local", "s3"}
  /\ fs = IF mode = "local" THEN ShareFs ELSE BaseFs
  /\ s3 = IF mode = "s3" THEN PrefixBucket ELSE <<>>
  /\ mpu = <<>>
  /\ inflight = {}
  /\ resp = NoResp
  /\ nextId = 0
  /\ sent = <<>>
  /\ steps = 0
  /\ input = <<>>
  /\ role = "read-write"
  /\ shares = <<>>
  /\ snap = <<>>

NextPrefix ==
  \/ \E rootReal \in PrefixRoots, path \in PrefixPaths, force \in BOOLEAN :
       Within(MaxPrefixSteps) /\ ShareCreateReq(rootReal, path, force)
  \/ \E rootReal \in PrefixRoots, path \in PrefixPaths :
       Within(MaxPrefixSteps) /\ ShareLookupReq(rootReal, path)
  \/ \E token \in ShareTokens : Within(MaxPrefixSteps) /\ ShareResolveReq(token)

SpecPrefix == InitPrefix /\ [][NextPrefix]_vars

\* C36: a share record keeps its path and its root as long as it is in the
\* registry, and leaves the registry only in a forced share creation for its
\* path under its root, whatever the root, the empty prefix included
C36_Counterexample ==
  [][ \A i \in DOMAIN shares :
        IF getShareRecord(shares', shares[i].token) # NoShare
          THEN /\ getShareRecord(shares', shares[i].token).path = shares[i].path
               /\ getShareRecord(shares', shares[i].token).rootReal = shares[i].rootReal
        ELSE /\ ShareCreated(resp') /\ resp'.force
             /\ resp'.rootReal = shares[i].rootReal
             /\ normalizeRequestPath(resp'.path) = shares[i].path ]_vars

(***************************************************************************)
(* The uploads of two users, one rooted at the root and one at its         *)
(* directory a.  Each request runs from its first step to its response     *)
(* before the next one starts; the second user names the upload id (and    *)
(* in S3 the key) that init gave the first.  sent holds, per upload id,    *)
(* the root of the session that started it, the destination and the part  *)
(* count fixed at init.                                                    *)
(***************************************************************************)
OwnerRoots ==
  IF mode = "local" THEN { ROOT_REAL, Append(ROOT_REAL, <<"a">>) }
  ELSE { S3_ROOT, S3_ROOT \o <<"a", SEP>> }

\* the destination an upload of FILE_F to "/" has under a root
OwnedDest(rootReal) == IF mode = "local" THEN Append(rootReal, FILE_F) ELSE rootReal \o FILE_F

\* most parts an upload of this specification declares
MaxOwnedParts == 2
\* most requests one behaviour of this specification serves
MaxOwnedSteps == 5

\* the assembly loop of handleLocalUploadComplete from part on, and what
\* follows it
RECURSIVE assembleUpload(_, _, _, _, _)
assembleUpload(f, dir, loc, part, totalChunks) ==
  IF part > totalChunks THEN [fs |-> RmRecursive(f, dir), code |-> 200]
  ELSE IF ~IsFile(f, Append(dir, PartFile(part))) THEN [fs |-> f, code |-> 500]
  ELSE IF ~(loc \in DOMAIN f /\ f[loc].t = "file") THEN [fs |-> f, code |-> 500]
  ELSE assembleUpload(
         [f EXCEPT ![loc] = FileNode(f[loc].c \o f[Follow(f, Append(dir, PartFile(part))).p].c)],
         dir, loc, part + 1, totalChunks)

OwnedInit(rootReal, total) ==
  LET uploadId == Uuid(nextId + 1)
      lr == handleLocalUploadInit(fs, SessionOf(rootReal), <<SEP>>, FILE_F, 0, total, TRUE, uploadId)
      sr == handleS3UploadInit(s3, SessionOf(rootReal), <<SEP>>, FILE_F, total, TRUE, uploadId)
  IN /\ nextId < MaxUploads
     /\ Serve([lr EXCEPT !.resp = @ @@ [rootReal |-> rootReal]],
              [sr EXCEPT !.resp = @ @@ [rootReal |-> rootReal]])
     /\ mpu' = IF mode = "s3" /\ sr.resp.code = 200
                 THEN (uploadId :> [key |-> sr.resp.key, parts |-> <<>>]) @@ mpu
                 ELSE mpu
     /\ nextId' = IF resp'.code = 200 THEN nextId + 1 ELSE nextId
     /\ sent' = IF resp'.code = 200
                  THEN (uploadId :> [owner |-> rootReal, dest |-> OwnedDest(rootReal),
                                     total |-> total, parts |-> <<>>, done |-> FALSE]) @@ sent
                  ELSE sent
     /\ UNCHANGED <<mode, inflight, input, role, shares, snap>>

OwnedStatus(rootReal, uploadId, key) ==
  LET req == [op |-> "upload_status", uploadId |-> uploadId, rootReal |-> rootReal] IN
  /\ IF mode = "local"
       THEN Respond(handleLocalUploadStatus(fs, SessionOf(rootReal), uploadId).resp @@ req)
     ELSE Respond(req @@ handleS3UploadStatus(mpu, uploadId, key))
  /\ UNCHANGED <<mode, fs, s3, mpu, inflight, nextId, sent, input, role, shares, snap>>

OwnedChunk(rootReal, uploadId, key, partNumber, data) ==
  LET req == [op |-> "upload_chunk", uploadId |-> uploadId, part |-> partNumber,
              rootReal |-> rootReal] IN
  /\ IF ~canWrite(SessionOf(rootReal).role)
       THEN Respond(req @@ [code |-> 403]) /\ UNCHANGED <<fs, mpu, sent>>
     ELSE IF mode = "local"
       THEN \E out \in { handleLocalUploadChunk(fs, SessionOf(rootReal), uploadId, partNumber,
                                                data, Len(data)) } :
              /\ fs' = out.fs
              /\ Respond(req @@ [code |-> IF out.code = 0 THEN 200 ELSE out.code])
              /\ sent' = IF out.code = 0 THEN NoteSent(uploadId, partNumber, data) ELSE sent
              /\ UNCHANGED mpu
     ELSE \E out \in { handleS3UploadChunk(mpu, uploadId, key, partNumber, data) } :
            /\ mpu' = out.mpu
            /\ sent' = IF out.code = 200 THEN NoteSent(uploadId, partNumber, data) ELSE sent
            /\ Respond(req @@ [code |-> out.code])
            /\ UNCHANGED fs
  /\ UNCHANGED <<mode, s3, inflight, nextId, input, role, shares, snap>>

OwnedComplete(rootReal, uploadId, key, totalChunks) ==
  LET req == [op |-> "upload_complete", uploadId |-> uploadId, total |-> totalChunks,
              rootReal |-> rootReal] IN
  /\ IF ~canWrite(SessionOf(rootReal).role)
       THEN Respond(req @@ [code |-> 403]) /\ UNCHANGED <<fs, s3, mpu, sent>>
     ELSE IF mode = "local"
       THEN \E opened \in { handleLocalUploadComplete(fs, SessionOf(rootReal), uploadId,
                                                      totalChunks) } :
              IF opened.code # 0
                THEN /\ fs' = opened.fs
                     /\ Respond(req @@ [code |-> opened.code])
                     /\ UNCHANGED <<s3, mpu, sent>>
              ELSE \E out \in { assembleUpload(opened.fs, opened.dir, opened.loc, 1,
                                               totalChunks) } :
                     /\ fs' = out.fs
                     /\ Respond(req @@ [code |-> out.code, dest |-> opened.loc])
                     /\ sent' = NoteDone(uploadId, out.code)
                     /\ UNCHANGED <<s3, mpu>>
     ELSE \E listed \in { handleS3UploadComplete(mpu, uploadId, key, totalChunks) } :
            IF listed.code # 0
              THEN Respond(req @@ [code |-> listed.code]) /\ UNCHANGED <<fs, s3, mpu, sent>>
            ELSE \E out \in { CompleteMultipartUpload(s3, mpu, uploadId, key, listed.listed) } :
                   /\ s3' = out.s3
                   /\ mpu' = out.mpu
                   /\ sent' = NoteDone(uploadId, out.code)
                   /\ Respond(req @@ [code |-> out.code, dest |-> key,
                                      parts |-> DOMAIN listed.listed])
                   /\ UNCHANGED fs
  /\ UNCHANGED <<mode, inflight, nextId, input, role, shares, snap>>

NextOwned ==
  \/ \E rootReal \in OwnerRoots, total \in 1..MaxOwnedParts :
       Within(MaxOwnedSteps) /\ OwnedInit(rootReal, total)
  \/ \E rootReal \in OwnerRoots, uploadId \in GivenIds, from \in OwnerRoots :
       Within(MaxOwnedSteps) /\ OwnedStatus(rootReal, uploadId, OwnedDest(from))
  \/ \E rootReal \in OwnerRoots, uploadId \in GivenIds, from \in OwnerRoots,
        partNumber \in 1..(MaxOwnedParts + 1) :
       Within(MaxOwnedSteps) /\ OwnedChunk(rootReal, uploadId, OwnedDest(from), partNumber, <<1>>)
  \/ \E rootReal \in OwnerRoots, uploadId \in GivenIds, from \in OwnerRoots,
        total \in 1..(MaxOwnedParts + 1) :
       Within(MaxOwnedSteps) /\ OwnedComplete(rootReal, uploadId, OwnedDest(from), total)

SpecOwned == InitUpload /\ [][NextOwned]_vars

\* this step answers a request that names an upload in progress
OnUpload(op) ==
  /\ steps' = steps + 1
  /\ resp'.op = op
  /\ resp'.uploadId \in DOMAIN sent
  /\ ~sent[resp'.uploadId].done

\* C37: a status, chunk or complete request that names an upload started
\* from a session of another root fails and changes nothing, and a complete
\* that succeeds publishes at the destination fixed at init
C37_Counterexample ==
  [][ \A op \in { "upload_status", "upload_chunk", "upload_complete" } :
        OnUpload(op) =>
          /\ resp'.rootReal # sent[resp'.uploadId].owner
               => (resp'.code >= 400 /\ fs' = fs /\ s3' = s3 /\ mpu' = mpu)
          /\ (op = "upload_complete" /\ resp'.code = 200)
               => resp'.dest = sent[resp'.uploadId].dest ]_vars

\* the numbers of the parts the object of an answered complete is built from
PublishedParts(r) == IF mode = "s3" THEN r.parts ELSE 1..r.total

\* C38: a complete request succeeds only with the part count declared at
\* init, and the object it publishes is built from the parts 1..totalParts,
\* no fewer and none above
C38_Counterexample ==
  [][ (OnUpload("upload_complete") /\ resp'.code = 200)
        => /\ resp'.total = sent[resp'.uploadId].total
           /\ PublishedParts(resp') = 1..sent[resp'.uploadId].total ]_vars

(***************************************************************************)
(* Restore with any id.  The root holds the directory a with a/a, the file *)
(* f.x and a file e.json the user has uploaded, whose text parses as a     *)
(* trash record; the trash is empty.  The ids are the ones trash gives out *)
(* and ids with ".." and "/".                                              *)
(***************************************************************************)
UP == <<DOT, DOT, SEP>>
FILE_E == <<"e", "J">>

UploadedRecord(id, trashName, originalPath) ==
  [k |-> "trash", id |-> id, name |-> <<"s">>, originalPath |-> originalPath,
   deletedAt |-> 0, type |-> "file", size |-> 1, trashName |-> trashName]

UploadedRecords ==
  { UploadedRecord(UP \o UP \o <<"e">>, UP \o UP \o <<"r", "x", SEP, "s">>, <<SEP, "n">>),
    UploadedRecord(<<"e">>, UP \o <<"a", SEP, "a">>, <<SEP, "n">>),
    UploadedRecord(<<"1">>, <<"q">>, <<SEP, "n">>) }

\* most trash requests one behaviour of this specification sees answered
MaxRestoreIds == 2
\* most requests one behaviour of this specification serves
MaxRestoreSteps == 3

RestoreIds ==
  { Uuid(n) : n \in 1..MaxRestoreIds }
  \cup { UP \o UP \o <<"e">>, <<"e">>, UP \o <<"e">>, <<"a", SEP, "e">> }

RestorePaths == { <<SEP, "a">>, <<SEP>> \o FILE_X, <<SEP, "a", SEP, "a">> }

InitRestore ==
  /\ mode \in {"local", "s3"}
  /\ \E record \in UploadedRecords :
       /\ fs = IF mode = "local"
                 THEN FileFs @@ (Append(ROOT_REAL, FILE_E) :> JsonNode(record))
                 ELSE BaseFs
       /\ s3 = IF mode = "s3"
                 THEN FileBucket @@ (S3_ROOT \o FILE_E :> S3Json(record))
                 ELSE <<>>
  /\ mpu = <<>>
  /\ inflight = {}
  /\ resp = NoResp
  /\ nextId = 0
  /\ sent = <<>>
  /\ steps = 0
  /\ input = <<>>
  /\ role = "read-write"
  /\ shares = <<>>
  /\ snap = <<>>

NextRestore ==
  \/ \E path \in RestorePaths :
       Within(MaxRestoreSteps) /\ nextId < MaxRestoreIds /\ TrashReq(path)
  \/ \E id \in RestoreIds : Within(MaxRestoreSteps) /\ RestoreReq(id)

SpecRestore == InitRestore /\ [][NextRestore]_vars

\* what a step takes away, adds or alters, as real paths (local) or keys (S3)
Gone == IF mode = "local" THEN DOMAIN fs \ DOMAIN fs' ELSE DOMAIN s3 \ DOMAIN s3'
Added == IF mode = "local" THEN DOMAIN fs' \ DOMAIN fs ELSE DOMAIN s3' \ DOMAIN s3
Altered ==
  IF mode = "local" THEN { q \in DOMAIN fs \cap DOMAIN fs' : fs'[q] # fs[q] }
  ELSE { q \in DOMAIN s3 \cap DOMAIN s3' : s3'[q] # s3[q] }

\* the place lies in the caller's root, in its trash, in its trash metadata
InRoot(q) ==
  IF mode = "local" THEN IsPrefix(ROOT_REAL, q) ELSE StartsWith(q, S3_ROOT)
InTrash(q) ==
  IF mode = "local" THEN IsPrefix(Append(ROOT_REAL, TRASH), q)
  ELSE StartsWith(q, S3_ROOT \o TRASH \o <<SEP>>)
InTrashMeta(q) ==
  IF mode = "local" THEN IsPrefix(ROOT_REAL \o <<TRASH, META>>, q)
  ELSE StartsWith(q, S3_ROOT \o TRASH \o <<SEP>> \o META \o <<SEP>>)

\* where trash writes the record of an id
RecordOf(id) ==
  IF mode = "local" THEN ROOT_REAL \o <<TRASH, META, id \o <<"J">> >>
  ELSE S3_ROOT \o TRASH \o <<SEP>> \o META \o <<SEP>> \o id \o <<"J">>

\* C39: a restore, whatever its id and whatever the record it reads, either
\* fails and leaves every file, object and record as it was, or takes
\* objects out of the caller's trash, puts objects into the caller's root
\* outside the trash and removes the one record of its id; nothing outside
\* the caller's root is moved or removed
C39_Counterexample ==
  [][ (steps' = steps + 1 /\ resp'.op = "restore")
        => /\ Altered = {}
           /\ \A q \in Gone \cup Added : InRoot(q)
           /\ resp'.code # 200
                => /\ Gone = {}
                   /\ \A q \in Added : InTrash(q)
           /\ resp'.code = 200
                => /\ \A q \in Gone : InTrash(q)
                   /\ { q \in Gone : InTrashMeta(q) } = { RecordOf(resp'.id) }
                   /\ Added # {}
                   /\ \A q \in Added : ~InTrash(q) ]_vars

====
